---- MODULE Spec2Model ----
(***************************************************************************)
(* The profiler lifecycle controller of platformatic/flame (the preload    *)
(* script): the two running flags, the exit latch, the samplers, the files *)
(* written, the awaited stop-and-save invocation and the handlers the      *)
(* script registers (SIGUSR2, beforeExit, the process.exit patch, SIGINT,  *)
(* SIGTERM).  One action is one turn of the single-threaded event loop:    *)
(* a handler runs to completion, an async function runs up to its next     *)
(* await.                                                                  *)
(***************************************************************************)
EXTENDS Integers, Sequences, FiniteSets, TLC

\* Bounds of the model.
MaxToggles == 2      \* SIGUSR2 deliveries
MaxExitCalls == 1    \* process.exit calls made by the target program
MaxFaults == 1       \* sampler / encode / write calls that throw
MaxTime == 1         \* distinct millisecond timestamps after the first
MaxLine == 2         \* generated lines of the file a sourcemap covers
MaxColumn == 2       \* generated columns (0-based) of such a line
MaxMappings == 2     \* mappings of one sourcemap
MaxLexemes == 4      \* lexemes of a source line
MaxBytes == 3        \* bytes of an uncompressed profile file
MaxInterrupts == 2   \* SIGINTs delivered to the run command
MaxChunks == 2       \* 'data' events of the renderer child's output

Kinds == {"cpu", "heap"}
\* What one sub-profiler's stop step can do: run through, throw while the
\* sampler is still running (stop() or heapProfiler.profile() throws), or throw
\* after the sampler has stopped (encode() or fs.writeFileSync throws).
Outcomes == {"ok", "stopThrew", "ioThrew"}
\* What the sampler's start() does when the sampler is already running.
StartOutcomes == {"ok", "throw"}
ExitCodes == {0, 1}
\* Who called a stop function.
ExitOrigins == {"beforeExit", "exit", "SIGINT", "SIGTERM"}
\* FLAME_DELAY as the auto-start block tells its values apart: 'none',
\* 'until-started' (also the default), a number of milliseconds >= 0, and
\* anything else.
DelayValues == {"none", "until-started", "ms", "invalid"}
\* Where the auto-start stands: nothing scheduled, the setImmediate callback
\* pending, the setTimeout pending (its delay running, then due),
\* startProfiling suspended at `await sourceMapperPromise`, its promise
\* rejected, or toggleProfiler called.
StartupStages ==
  {"unscheduled", "immediate", "timer", "due", "await", "rejected", "called"}

VARIABLES
  autoStart,              \* FLAME_AUTO_START === 'true'
  autoStartPending,       \* the auto-start timer / immediate has not fired yet
  isCpuProfilerRunning,   \* module-level flag
  isHeapProfilerRunning,  \* module-level flag
  sampler,                \* the real state of pprof.time / pprof.heap
  exitHandlerCalled,      \* the exit latch
  now,                    \* the clock new Date() reads
  pbWritten,              \* log of the .pb files fs.writeFileSync wrote (name, by whom, when)
  invocations,            \* every call of stopProfilerAndSave / stopProfilerQuick
  renders,                \* HTML / markdown generations started
  term,                   \* whether and how the process has terminated
  hist,                   \* history: counters and what the last turn did
  phase,                  \* bootstrap: "preload" (the script has not run), "main"
                          \* (the target's entry module is about to run), "loop"
  sourceMapperPromise,    \* "null", "pending", or what it was fulfilled with:
                          \* "mapper" (and sourceMapper is set) or "failed" (null)
  startup,                \* the auto-start block: its delayValue and its stage
  location,               \* the location handed to mapper.mappingInfo
  infoMap,                \* mapper.infoMap: the generated file indexed and its entry
  resolved,               \* what mapper.mappingInfo did with the location
  index,                  \* the sourcemap initialisation: what is configured, the
                          \* two loads, mapper.infoMap and the module's sourceMapper
  sourceLine,             \* the source line handed to extractFunctionName
  extracted,              \* what extractFunctionName returned for it
  profileFile,            \* the bytes of the file handed to parseProfile
  parsed,                 \* what parseProfile did with them
  cli,                    \* the `flame run` command: its arguments, where it is,
                          \* the child it spawned and the signals it sent
  flamegraph,             \* a generateFlamegraph call: the events of its child
                          \* still to come, the output gathered, its promise
  mapFile                 \* a .map file handed to processSourceMapFile, the
                          \* files that exist, and what the function returned

controllerVars ==
  <<autoStart, autoStartPending, isCpuProfilerRunning, isHeapProfilerRunning,
    sampler, exitHandlerCalled, now, pbWritten, invocations, renders, term, hist,
    phase, sourceMapperPromise, startup>>

resolverVars == <<location, infoMap, resolved>>

libraryVars == <<sourceLine, extracted, profileFile, parsed, flamegraph, mapFile>>

\* What a turn of the controller's event loop leaves alone.
outsideVars == <<location, infoMap, resolved, sourceLine, extracted, profileFile,
                 parsed, cli, flamegraph, mapFile>>

vars == <<autoStart, autoStartPending, isCpuProfilerRunning, isHeapProfilerRunning,
          sampler, exitHandlerCalled, now, pbWritten, invocations, renders, term, hist,
          phase, sourceMapperPromise, startup, location, infoMap, resolved,
          index, sourceLine, extracted, profileFile, parsed, cli, flamegraph,
          mapFile>>

(***************************************************************************)
(* Sourcemap resolution: mapper.mappingInfo as a function of the location  *)
(* and of the index entry of its file.  A path is the sequence of its      *)
(* segments; null is "null" for a string, 0 for an original line and -1    *)
(* for an original column.                                                 *)
(***************************************************************************)

GeneratedFile == <<"dist", "app.js">>
Files == {GeneratedFile, <<"lib", "other.js">>}

\* The locations of a profile: 1-based line and column, 0 where unknown.
Locations ==
  [file : Files, line : 0..MaxLine, column : 0..(MaxColumn + 1), name : {"(anonymous)"}]

\* A mapping of the sourcemap: a generated position (1-based line, 0-based
\* column) and the original position it stands for.
GeneratedPositions == [line : 1..MaxLine, column : 0..MaxColumn]

\* The original position the maps of the model give a generated position.
OriginalOf(g, named) ==
  [source |-> "original.ts", line |-> g.line + 1, column |-> MaxColumn - g.column,
   name |-> IF named THEN "myFunction" ELSE "null"]

NullPosition == [source |-> "null", line |-> 0, column |-> -1, name |-> "null"]

\* consumer.originalPositionFor({ line, column, bias }) of source-map: the
\* mapping on the needle's line nearest to its column, at or before it
\* (the default bias, GREATEST_LOWER_BOUND) or at or after it
\* (LEAST_UPPER_BOUND); all nulls when there is none; a line below 1 or a
\* column below 0 is rejected with an Error.
originalPositionFor(entry, needle, bias) ==
  IF needle.line < 1 \/ needle.column < 0
  THEN [threw |-> TRUE, pos |-> NullPosition]
  ELSE LET onLine == {g \in entry.mappings : g.line = needle.line}
           near == IF bias = "LEAST_UPPER_BOUND"
                   THEN {g \in onLine : g.column >= needle.column}
                   ELSE {g \in onLine : g.column <= needle.column}
       IN IF near = {}
          THEN [threw |-> FALSE, pos |-> NullPosition]
          ELSE LET best == CHOOSE g \in near : \A o \in near :
                             IF bias = "LEAST_UPPER_BOUND"
                             THEN g.column <= o.column
                             ELSE g.column >= o.column
               IN [threw |-> FALSE, pos |-> OriginalOf(best, entry.named)]

\* this.getMappingInfo(inputPath): the entry of the file, or null.
HasMappingInfo(map, inputPath) == inputPath = map.file

\* { line: location.line, column: location.column > 0 ? location.column - 1 : 0 }
GeneratedPos(loc) ==
  [line |-> loc.line, column |-> IF loc.column > 0 THEN loc.column - 1 ELSE 0]

Returned(value) == [threw |-> FALSE, value |-> value]

\* An exception leaves mappingInfo; the location it was called with is kept
\* for reference.
Thrown(loc) == [threw |-> TRUE, value |-> loc]

\* Defective variant: a name found in the source line goes before the map's.
MappedLocationExtractFirst(map, loc, pos) ==
  [file |-> Append(map.mapFileDir, pos.source),
   line |-> pos.line,
   name |-> IF pos.line # 0 /\ map.extractedName # "null" THEN map.extractedName
            ELSE IF pos.name # "null" THEN pos.name
            ELSE loc.name,
   column |-> IF pos.column = -1 THEN -1 ELSE pos.column + 1]

\* The tail of mappingInfo: the name (the map's, else the one found in the
\* original source line, else the location's) and the location returned.
MappedLocation(map, loc, pos) ==
  LET resolvedName ==
        IF pos.name # "null" THEN pos.name
        ELSE IF pos.line # 0 /\ map.extractedName # "null" THEN map.extractedName
        ELSE loc.name
  IN [file |-> Append(map.mapFileDir, pos.source),
      line |-> pos.line,
      name |-> resolvedName,
      column |-> IF pos.column = -1 THEN -1 ELSE pos.column + 1]

\* The mappingInfo the override replaces: the default lookup only.
strictMappingInfo(map, loc) ==
  IF ~HasMappingInfo(map, loc.file)
  THEN Returned(loc)
  ELSE LET first == originalPositionFor(map, GeneratedPos(loc), "GREATEST_LOWER_BOUND")
       IN IF first.threw THEN Thrown(loc)
          ELSE IF first.pos.source = "null" THEN Returned(loc)
          ELSE Returned(MappedLocation(map, loc, first.pos))

\* Defective variant: the second lookup repeats the default bias.
SecondLookupDefaultBias == "GREATEST_LOWER_BOUND"

\* The bias of the second lookup.
SecondLookupBias == "LEAST_UPPER_BOUND"

\* mapper.mappingInfo = function (location) { ... }
mappingInfo(map, loc) ==
  IF ~HasMappingInfo(map, loc.file)
  THEN Returned(loc)
  ELSE LET first == originalPositionFor(map, GeneratedPos(loc), "GREATEST_LOWER_BOUND")
       IN IF first.threw THEN Thrown(loc)
          ELSE LET second == IF first.pos.source = "null"
                             THEN originalPositionFor(map, GeneratedPos(loc), SecondLookupBias)
                             ELSE first
               IN IF second.threw THEN Thrown(loc)
                  ELSE IF second.pos.source = "null" THEN Returned(loc)
                  ELSE Returned(MappedLocation(map, loc, second.pos))

\* The sourcemaps of the model: the entry of the generated file, with up to
\* MaxMappings mappings, with or without names, and what extractFunctionName
\* finds in the original source line.
InfoMaps ==
  [file : {GeneratedFile}, mapFileDir : {<<"dist">>},
   mappings : {ms \in SUBSET GeneratedPositions : Cardinality(ms) <= MaxMappings},
   named : BOOLEAN, extractedName : {"null", "renderElement"}]

\* No location is being resolved.
NotResolved == [by |-> "none", threw |-> FALSE, value |-> [file |-> <<>>, line |-> 0, name |-> "null", column |-> 0]]

(***************************************************************************)
(* Name extraction from a source line.  A line is the sequence of its       *)
(* lexemes: a word (a maximal run of identifier characters), a blank, or    *)
(* one other character; two words are never adjacent.                       *)
(***************************************************************************)

ControlFlowWords == {"if", "for", "while", "switch", "catch"}

\* Every word matches [a-zA-Z_$][a-zA-Z0-9_$]*, keywords included.
Words == {"function", "async", "foo"} \cup ControlFlowWords

Lexemes == Words \cup {" ", "(", "=", ":", ";"}

SourceLines ==
  {l \in UNION {[1..n -> Lexemes] : n \in 0..MaxLexemes} :
     \A p \in 1..(Len(l) - 1) : ~(l[p] \in Words /\ l[p + 1] \in Words)}

\* The lexeme at position q, "" past the end of the line.
At(l, q) == IF q \in 1..Len(l) THEN l[q] ELSE ""

\* \s* from position p on: where the blanks end.
SkipSpaces(l, p) ==
  CHOOSE q \in p..(Len(l) + 1) :
    /\ \A r \in p..(q - 1) : l[r] = " "
    /\ At(l, q) # " "

\* Where the leftmost match starts, among the positions where one starts.
Leftmost(starts) == CHOOSE p \in starts : \A o \in starts : p <= o

\* /(?:async\s+)?function\s+([a-zA-Z_$][a-zA-Z0-9_$]*)\s*\(/
funcMatch(l) ==
  LET NameAt(p) == SkipSpaces(l, p + 1)
      starts == {p \in 1..Len(l) :
                   /\ l[p] = "function"
                   /\ NameAt(p) > p + 1
                   /\ At(l, NameAt(p)) \in Words
                   /\ At(l, SkipSpaces(l, NameAt(p) + 1)) = "("}
  IN IF starts = {} THEN "null" ELSE l[NameAt(Leftmost(starts))]

\* /([a-zA-Z_$][a-zA-Z0-9_$]*)\s*[=:]\s*(?:async\s*)?\(/
arrowMatch(l) ==
  LET SignAt(p) == SkipSpaces(l, p + 1)
      AfterSign(p) == SkipSpaces(l, SignAt(p) + 1)
      starts == {p \in 1..Len(l) :
                   /\ l[p] \in Words
                   /\ At(l, SignAt(p)) \in {"=", ":"}
                   /\ \/ At(l, AfterSign(p)) = "("
                      \/ /\ At(l, AfterSign(p)) = "async"
                         /\ At(l, SkipSpaces(l, AfterSign(p) + 1)) = "("}
  IN IF starts = {} THEN "null" ELSE l[Leftmost(starts)]

\* /^\s*(?:async\s+)?([a-zA-Z_$][a-zA-Z0-9_$]*)\s*\(/
methodMatch(l) ==
  LET first == SkipSpaces(l, 1)
      second == SkipSpaces(l, first + 1)
  IN CASE /\ At(l, first) = "async"
          /\ second > first + 1
          /\ At(l, second) \in Words
          /\ At(l, SkipSpaces(l, second + 1)) = "(" -> l[second]
       [] /\ At(l, first) \in Words
          /\ At(l, second) = "(" -> l[first]
       [] OTHER -> "null"

\* extractFunctionName (sourceLine), line here: the first of the three patterns that
\* matches gives the name.
extractFunctionName(line) ==
  IF line = <<>> THEN "null"
  ELSE IF funcMatch(line) # "null" THEN funcMatch(line)
  ELSE IF arrowMatch(line) # "null" THEN arrowMatch(line)
  ELSE methodMatch(line)

NotExtracted == [by |-> "none", name |-> "null"]

(***************************************************************************)
(* parseProfile.  A file is the sequence of its bytes.  The protobuf wire   *)
(* format is kept for the varint and the length-delimited fields, and gzip  *)
(* as its framing: the magic bytes, the method, the stored data, a check    *)
(* value and the size.                                                      *)
(***************************************************************************)

GzipMagic == <<31, 139>>     \* 0x1f 0x8b
DeflateMethod == 8

\* The bytes of the files: the gzip magic, the tags of a varint field (72)
\* and of a length-delimited field (10), and small values.
Bytes == {0, 1, 10, 31, 72, 139}

ByteStreams == UNION {[1..n -> Bytes] : n \in 0..MaxBytes}

RECURSIVE Sum(_)
Sum(b) == IF b = <<>> THEN 0 ELSE Head(b) + Sum(Tail(b))

CheckValue(b) == Sum(b) % 256

\* zlib.gzipSync
gzip(b) == GzipMagic \o <<DeflateMethod>> \o b \o <<CheckValue(b), Len(b) % 256>>

\* zlib.gunzipSync: throws on anything that is not a well-formed member.
gunzipSync(d) ==
  LET n == Len(d)
      body == SubSeq(d, 4, n - 2)
  IN IF /\ n >= 5
        /\ SubSeq(d, 1, 2) = GzipMagic
        /\ d[3] = DeflateMethod
        /\ d[n - 1] = CheckValue(body)
        /\ d[n] = Len(body) % 256
     THEN [threw |-> FALSE, value |-> body]
     ELSE [threw |-> TRUE, value |-> <<>>]

\* A base-128 varint at position p: its value and the position after it,
\* next = 0 when the bytes end inside it.
RECURSIVE Varint(_, _)
Varint(b, p) ==
  IF p > Len(b) THEN [value |-> 0, next |-> 0]
  ELSE IF b[p] < 128 THEN [value |-> b[p], next |-> p + 1]
  ELSE LET rest == Varint(b, p + 1)
       IN [value |-> (b[p] - 128) + 128 * rest.value, next |-> rest.next]

\* The bytes of a varint.
RECURSIVE VarintBytes(_)
VarintBytes(v) ==
  IF v < 128 THEN <<v>> ELSE <<128 + (v % 128)>> \o VarintBytes(v \div 128)

DecodeError == [threw |-> TRUE, fields |-> <<>>]

\* Profile.decode: the fields in the order of the bytes; a wire type other
\* than varint (0) and length-delimited (2), field number 0 and truncated
\* input are errors.
RECURSIVE DecodeFrom(_, _, _)
DecodeFrom(b, p, acc) ==
  IF p > Len(b) THEN [threw |-> FALSE, fields |-> acc]
  ELSE
    LET tag == Varint(b, p)
        field == tag.value \div 8
        wire == tag.value % 8
        v == Varint(b, tag.next)
    IN IF tag.next = 0 \/ field = 0 \/ wire \notin {0, 2} \/ v.next = 0
       THEN DecodeError
       ELSE IF wire = 0
       THEN DecodeFrom(b, v.next, Append(acc, [field |-> field, wire |-> 0, value |-> <<v.value>>]))
       ELSE IF v.next + v.value - 1 > Len(b)
       THEN DecodeError
       ELSE DecodeFrom(b, v.next + v.value,
                       Append(acc, [field |-> field, wire |-> 2,
                                    value |-> SubSeq(b, v.next, v.next + v.value - 1)]))

decode(b) == DecodeFrom(b, 1, <<>>)

\* The encoder: a field is its tag, then the varint or the length and the
\* payload.
RECURSIVE Encode(_)
Encode(fields) ==
  IF fields = <<>> THEN <<>>
  ELSE LET f == Head(fields)
       IN VarintBytes(f.field * 8 + f.wire)
          \o (IF f.wire = 0 THEN VarintBytes(f.value[1])
              ELSE VarintBytes(Len(f.value)) \o f.value)
          \o Encode(Tail(fields))

\* Defective variant: the two magic bytes are compared the other way round.
isGzippedSwapped(data) == Len(data) >= 2 /\ data[1] = GzipMagic[2] /\ data[2] = GzipMagic[1]

\* data[0] === 0x1f && data[1] === 0x8b
isGzipped(data) == Len(data) >= 2 /\ data[1] = GzipMagic[1] /\ data[2] = GzipMagic[2]

\* parseProfile once the file has been read.
parseProfile(data) ==
  IF isGzipped(data)
  THEN LET u == gunzipSync(data)
       IN IF u.threw THEN DecodeError ELSE decode(u.value)
  ELSE decode(data)

NoResult == [threw |-> FALSE, fields |-> <<>>]

\* called: which of the two files parseProfile has been applied to.
NotParsed == [called |-> {}, plain |-> NoResult, gz |-> NoResult]

(***************************************************************************)
(* The sourcemap initialisation: the async function whose promise is        *)
(* sourceMapperPromise.  It awaits SourceMapper.create(dirs) when            *)
(* directories are configured, then nodeModulesMapperPromise when packages  *)
(* are, merges, and assigns the module's sourceMapper.  An index entry is   *)
(* the generated path and where its sourcemap was found.                    *)
(***************************************************************************)

Paths == {"dist/app.js", "node_modules/next/server.js"}

DirEntries == [path : Paths, from : {"dirs"}]

PackageEntries == [path : Paths, from : {"package"}]

NoIndex ==
  [dirs |-> FALSE, mods |-> FALSE, create |-> "none", load |-> "none",
   iife |-> "none", built |-> {}, loaded |-> {}, infoMap |-> {},
   sourceMapper |-> FALSE, found |-> "none"]

\* The script reads FLAME_SOURCEMAP_DIRS and FLAME_NODE_MODULES_SOURCE_MAPS,
\* starts loadNodeModulesSourceMaps and the initialisation.
startInitialisation(idx) ==
  [idx EXCEPT !.load = IF idx.mods THEN "unsettled" ELSE "none",
              !.create = IF idx.dirs THEN "unsettled" ELSE "none",
              !.iife = IF idx.dirs THEN "create"
                       ELSE IF idx.mods THEN "merge"
                       ELSE "none"]

\* Defective variant: a failed package load is not caught.
nodeModulesUncaught(idx, ok, entries) ==
  [idx EXCEPT !.load = IF ok THEN "loaded" ELSE "rejected",
              !.loaded = IF ok THEN entries ELSE {}]

\* nodeModulesMapperPromise settles: with the entries, or, the failure caught
\* and logged, with an empty Map.
nodeModulesSettled(idx, ok, entries) ==
  [idx EXCEPT !.load = IF ok THEN "loaded" ELSE "failed",
              !.loaded = IF ok THEN entries ELSE {}]

\* for (const [generatedPath, info] of nodeModulesEntries)
\*   mapper.infoMap.set(generatedPath, info)
Merge(map, entries) ==
  {e \in map : \A n \in entries : n.path # e.path} \cup entries

\* Defective variant: sourceMapper is assigned as soon as the mapper exists.
createdAndPublished(idx, ok, entries) ==
  IF ok
  THEN [idx EXCEPT !.create = "done", !.built = entries, !.infoMap = entries,
                   !.sourceMapper = TRUE]
  ELSE [idx EXCEPT !.create = "failed"]

\* SourceMapper.create(dirs) settles: with a mapper whose infoMap holds the
\* entries found, or rejected.
created(idx, ok, entries) ==
  IF ok
  THEN [idx EXCEPT !.create = "done", !.built = entries, !.infoMap = entries]
  ELSE [idx EXCEPT !.create = "failed"]

\* The initialisation runs on from where it is as far as it can: to its next
\* await of a pending promise, to its return, or into its catch.
advance(idx) ==
  IF idx.iife = "create" /\ idx.create = "failed"
  THEN [idx EXCEPT !.iife = "failed"]
  ELSE IF idx.iife = "create" /\ idx.create = "done" /\ idx.mods /\ idx.load = "unsettled"
  THEN [idx EXCEPT !.iife = "merge"]
  ELSE IF idx.iife \in {"create", "merge"} /\ idx.create # "unsettled" /\ idx.load = "rejected"
  THEN [idx EXCEPT !.iife = "failed"]
  ELSE IF idx.iife \in {"create", "merge"} /\ idx.create # "unsettled" /\ idx.load # "unsettled"
  THEN [idx EXCEPT !.iife = "done",
                   !.infoMap = Merge(idx.infoMap, idx.loaded),
                   !.sourceMapper = TRUE]
  ELSE idx

\* this.getMappingInfo(inputPath): a read of the index.
getMappingInfo(idx, inputPath) ==
  [idx EXCEPT !.found = IF \E e \in idx.infoMap : e.path = inputPath
                        THEN "entry" ELSE "null"]

(***************************************************************************)
(* processSourceMapFile.  A path is a directory (a sequence of names) and  *)
(* a file name (the sequence of its dot-separated parts).                  *)
(***************************************************************************)

\* The .map files the walk yields: names that end in .js.map or .mjs.map.
MapPaths ==
  {[dir |-> <<"dist">>, name |-> n] : n \in {<<"app", "js", "map">>, <<"app", "mjs", "map">>}}

\* consumer.file: absent, or a path relative to the map's directory.
DeclaredFiles ==
  {[present |-> FALSE, dirs |-> <<>>, name |-> <<>>]}
    \cup {[present |-> TRUE, dirs |-> d, name |-> n] :
            d \in {<<>>, <<"out">>}, n \in {<<"app", "js">>, <<"bundle", "js">>}}

\* The generated files that may exist next to the maps.
GeneratedPaths ==
  {[dir |-> <<"dist">>, name |-> n] : n \in {<<"app", "js">>, <<"app", "mjs">>, <<"bundle", "js">>}}
    \cup {[dir |-> <<"dist", "out">>, name |-> <<"bundle", "js">>]}

NoEntry == [found |-> FALSE, generatedPath |-> [dir |-> <<>>, name |-> <<>>], mapFileDir |-> <<>>]

\* No map file is processed.
NoMapFile ==
  [path |-> [dir |-> <<>>, name |-> <<>>], readable |-> FALSE, parses |-> FALSE,
   file |-> [present |-> FALSE, dirs |-> <<>>, name |-> <<>>], exists |-> {},
   called |-> FALSE, result |-> NoEntry]

\* Defective variant: the map's own name is tried before the declared file.
generatedPathCandidatesNameFirst(m) ==
  LET name == m.path.name
      stripped == IF name # <<>> /\ name[Len(name)] = "map"
                  THEN SubSeq(name, 1, Len(name) - 1) ELSE name
  IN <<[dir |-> m.path.dir, name |-> stripped]>>
       \o (IF m.file.present
           THEN <<[dir |-> m.path.dir \o m.file.dirs, name |-> m.file.name]>>
           ELSE <<>>)

\* generatedPathCandidates: path.resolve(dir, consumer.file) if the map
\* declares a file, then path.resolve(dir, path.basename(mapPath, '.map')).
generatedPathCandidates(m) ==
  LET name == m.path.name
      stripped == IF name # <<>> /\ name[Len(name)] = "map"
                  THEN SubSeq(name, 1, Len(name) - 1) ELSE name
  IN (IF m.file.present
      THEN <<[dir |-> m.path.dir \o m.file.dirs, name |-> m.file.name]>>
      ELSE <<>>)
       \o <<[dir |-> m.path.dir, name |-> stripped]>>

\* async function processSourceMapFile (mapPath): null when the map cannot
\* be read or parsed, else the first candidate fsPromises.access accepts,
\* else null.
processSourceMapFile(m) ==
  IF ~m.readable \/ ~m.parses
  THEN NoEntry
  ELSE LET candidates == generatedPathCandidates(m)
           accessible == {n \in 1..Len(candidates) : candidates[n] \in m.exists}
       IN IF accessible = {}
          THEN NoEntry
          ELSE [found |-> TRUE,
                generatedPath |-> candidates[CHOOSE n \in accessible : \A o \in accessible : n <= o],
                mapFileDir |-> m.path.dir]

(***************************************************************************)
(* generateFlamegraph: a promise around a renderer child.  The child's     *)
(* events are its 'data' chunks on stdout and stderr, then 'close' with    *)
(* its exit code, or, when it could not be spawned, 'error' and then       *)
(* 'close' with the negative errno.                                        *)
(***************************************************************************)

\* The exit code 'close' carries after a failed spawn (-ENOENT).
SpawnErrno == -2

DataEvent(stream) == [type |-> "data", stream |-> stream, code |-> 0]
CloseEvent(code) == [type |-> "close", stream |-> "none", code |-> code]
ErrorEvent == [type |-> "error", stream |-> "none", code |-> SpawnErrno]

\* The ends of a child: it exits with 0 or with 1, it cannot be spawned, or
\* the 'error' of the failed spawn is all there is.
Endings ==
  {<<CloseEvent(0)>>, <<CloseEvent(1)>>, <<ErrorEvent, CloseEvent(SpawnErrno)>>,
   <<ErrorEvent>>}

RECURSIVE Outputs(_)
Outputs(n) ==
  IF n = 0 THEN {<<>>}
  ELSE Outputs(n - 1)
         \cup {Append(o, DataEvent(st)) : o \in {q \in Outputs(n - 1) : Len(q) = n - 1},
                                          st \in {"stdout", "stderr"}}

\* What a child can emit: output, then one of the endings; a child that
\* cannot be spawned has no output.
ChildEvents ==
  {o \o e : o \in Outputs(MaxChunks), e \in Endings} \ 
    {o \o e : o \in Outputs(MaxChunks) \ {<<>>}, e \in {q \in Endings : q[1].type = "error"}}

NoValue == [stdout |-> <<>>, stderr |-> <<>>, message |-> <<>>]

\* No generateFlamegraph call is under way.
NoFlamegraph ==
  [impl |-> "none", events |-> <<>>, delivered |-> <<>>, stdout |-> <<>>,
   stderr |-> <<>>, promise |-> [state |-> "pending", value |-> NoValue]]

\* resolve(value) / reject(reason) of `new Promise((resolve, reject) => ...)`:
\* the first call settles the promise, a later one does nothing.
Settle(f, state, value) ==
  IF f.promise.state = "pending"
  THEN [f EXCEPT !.promise = [state |-> state, value |-> value]]
  ELSE f

\* child.stdout.on('data', ...) and child.stderr.on('data', ...)
onData(f, e) ==
  IF e.stream = "stdout"
  THEN [f EXCEPT !.stdout = Append(@, "chunk")]
  ELSE [f EXCEPT !.stderr = Append(@, "chunk")]

\* Defective variant: the exit code is not looked at.
onCloseResolves(f, e) ==
  Settle(f, "resolved", [NoValue EXCEPT !.stdout = f.stdout, !.stderr = f.stderr])

\* child.on('close', (code) => ...)
onClose(f, e) ==
  IF e.code = 0
  THEN Settle(f, "resolved", [NoValue EXCEPT !.stdout = f.stdout, !.stderr = f.stderr])
  ELSE Settle(f, "rejected",
              [NoValue EXCEPT !.message =
                 <<IF f.impl = "lib" THEN "CLI failed" ELSE "Flamegraph generation failed">>
                   \o (IF f.stderr # <<>> THEN f.stderr ELSE f.stdout)])

\* child.on('error', (error) => ...)
onError(f, e) ==
  Settle(f, "rejected",
         [NoValue EXCEPT !.message =
            IF f.impl = "lib" THEN <<"Failed to start CLI", "spawn">> ELSE <<"spawn">>])

(***************************************************************************)
(* The run command (bin/flame.js) and the library call that spawns the     *)
(* profiled process (lib/index.js startProfiling).                         *)
(***************************************************************************)

\* The delay of the timer the SIGINT handler arms, in milliseconds.
GraceMs == 5000

\* positionals[1]: not given, given but no such file, given and found.
ScriptArgs == {"absent", "missing", "found"}
\* --delay as the validation tells its values apart: not given, 'none',
\* 'until-started', a string parseInt reads as a number >= 0, one it reads as
\* a negative number, one it reads as NaN.
DelayArgs == {"unset", "none", "until-started", "ms", "negative", "invalid"}
\* --sourcemap-dirs: not given, or a list of directories.
DirArgs == {"unset", "dist:build"}
\* FLAME_DELAY in the environment the command itself was started with.
InheritedDelays == {"unset", "none", "invalid"}

\* process.env of the command, as far as the controller reads it.
Environment(flameDelay) ==
  [FLAME_AUTO_START |-> "unset", FLAME_DELAY |-> flameDelay,
   FLAME_SOURCEMAP_DIRS |-> "unset", FLAME_NODE_MODULES_SOURCE_MAPS |-> "unset"]

\* options = {}; hasEnv tells whether the object has an env of its own.
NoOptions ==
  [autoStart |-> FALSE, delay |-> "unset", sourcemapDirs |-> "unset",
   nodeModulesSourceMaps |-> "unset", hasEnv |-> FALSE, env |-> Environment("unset")]

\* The command before main() runs.
NewCli(script, delay, manual, dirs, flameDelay) ==
  [args |-> [script |-> script, delay |-> delay, manual |-> manual,
             sourcemapDirs |-> dirs],
   env |-> Environment(flameDelay),
   pc |-> "start", code |-> 0, error |-> "none", exitBy |-> "none",
   child |-> "none", options |-> NoOptions, childEnv |-> Environment("unset"),
   sent |-> <<>>, interrupts |-> 0, timers |-> <<>>, due |-> FALSE]

\* No command is run.
NoCli == [NewCli("absent", "unset", FALSE, "unset", "unset") EXCEPT !.pc = "none"]

\* console.error(...); process.exit(1)
Fatal(c, error) == [c EXCEPT !.pc = "exited", !.code = 1, !.error = error, !.exitBy = "error"]

\* const delay = args.delay || 'until-started'
DelayOption(c) == IF c.args.delay = "unset" THEN "until-started" ELSE c.args.delay

\* Defective variant: a negative number of milliseconds is let through.
DelayRejectedNaNOnly(delay) ==
  /\ delay \notin {"none", "until-started"}
  /\ delay = "invalid"

\* delay !== 'none' && delay !== 'until-started' &&
\* (isNaN(delayMs) || delayMs < 0), with delayMs = parseInt(delay, 10)
DelayRejected(delay) ==
  /\ delay \notin {"none", "until-started"}
  /\ delay \in {"invalid", "negative"}

\* What the run command hands to startProfiling.
RunOptions(c) ==
  [NoOptions EXCEPT !.autoStart = ~c.args.manual, !.delay = DelayOption(c),
                    !.sourcemapDirs = c.args.sourcemapDirs]

\* lib startProfiling: const env is the caller's process.env, then
\* options.env, then FLAME_AUTO_START; spawn is given
\* { stdio: 'inherit', env, ...options }, where an env of the options
\* replaces the one just built.
ChildEnvironment(env, options) ==
  LET merged == [k \in DOMAIN env |->
                   IF options.hasEnv /\ options.env[k] # "unset"
                   THEN options.env[k] ELSE env[k]]
      built == [merged EXCEPT !.FLAME_AUTO_START =
                                IF options.autoStart THEN "true" ELSE "false"]
  IN IF options.hasEnv THEN options.env ELSE built

\* What the controller in the child makes of its environment.
ControllerReads(env) ==
  [autoStart |-> env.FLAME_AUTO_START = "true",
   delayValue |-> IF env.FLAME_DELAY = "unset" THEN "until-started" ELSE env.FLAME_DELAY,
   sourcemapDirs |-> env.FLAME_SOURCEMAP_DIRS,
   nodeModulesSourceMaps |-> env.FLAME_NODE_MODULES_SOURCE_MAPS]

\* case 'run' of main(): the checks, then startProfiling and the two
\* handlers registered on the command and on the child.
runCommand(c) ==
  IF c.args.script = "absent" THEN Fatal(c, "no script")
  ELSE IF c.args.script = "missing" THEN Fatal(c, "not found")
  ELSE IF DelayRejected(DelayOption(c)) THEN Fatal(c, "invalid delay")
  ELSE [c EXCEPT !.pc = "running", !.child = "running",
                 !.options = RunOptions(c),
                 !.childEnv = ChildEnvironment(c.env, RunOptions(c))]

\* Defective variant: the handler kills the child at once and arms no timer.
interruptHandlerKills(c) ==
  [c EXCEPT !.pc = "stopping", !.sent = Append(@, "SIGKILL"),
            !.interrupts = @ + 1]

\* process.on('SIGINT', ...): childProcess.kill('SIGTERM') and
\* setTimeout(..., 5000).
interruptHandler(c) ==
  [c EXCEPT !.pc = "stopping", !.sent = Append(@, "SIGTERM"),
            !.interrupts = @ + 1, !.timers = Append(@, GraceMs)]

\* The timer's callback: childProcess.kill('SIGKILL'); process.exit(0)
graceCallback(c) ==
  [c EXCEPT !.sent = Append(@, "SIGKILL"), !.pc = "exited", !.code = 0,
            !.exitBy = "grace", !.timers = <<>>, !.due = FALSE]

\* childProcess.on('close', code => process.exit(code))
closeHandler(c, code) ==
  [c EXCEPT !.child = "closed", !.pc = "exited", !.code = code,
            !.exitBy = "close", !.timers = <<>>, !.due = FALSE]

\* The value of delayValue where the const is not in scope: before the
\* auto-start block has run, and once nothing of the block is pending.
NoDelay == "unset"

\* The auto-start block once the turn in which startProfiling called
\* toggleProfiler is over (and the bootstrap turn with it): nothing of the
\* block is pending and its delayValue is never read again.
Release(st, ph) ==
  IF st.stage = "called" /\ ph = "loop"
  THEN [st EXCEPT !.delayValue = NoDelay]
  ELSE st

\* The mutable program state as one record, so that a handler is the
\* composition of the functions it calls.
Cur ==
  [isCpuProfilerRunning |-> isCpuProfilerRunning,
   isHeapProfilerRunning |-> isHeapProfilerRunning,
   sampler |-> sampler,
   exitHandlerCalled |-> exitHandlerCalled,
   pbWritten |-> pbWritten,
   invocations |-> invocations,
   renders |-> renders,
   term |-> term,
   hist |-> [hist EXCEPT !.turnRenders = {}, !.nullReturn = FALSE],
   phase |-> phase,
   sourceMapperPromise |-> sourceMapperPromise,
   startup |-> Release(startup, phase)]

Assign(s) ==
  /\ isCpuProfilerRunning' = s.isCpuProfilerRunning
  /\ isHeapProfilerRunning' = s.isHeapProfilerRunning
  /\ sampler' = s.sampler
  /\ exitHandlerCalled' = s.exitHandlerCalled
  /\ pbWritten' = s.pbWritten
  /\ invocations' = s.invocations
  /\ renders' = s.renders
  /\ term' = s.term
  /\ hist' = s.hist
  /\ phase' = s.phase
  /\ sourceMapperPromise' = s.sourceMapperPromise
  /\ startup' = s.startup
  /\ UNCHANGED outsideVars

\* A turn that does not belong to the sourcemap initialisation.
Commit(s) ==
  /\ Assign(s)
  /\ UNCHANGED index

Running(s) == s.isCpuProfilerRunning \/ s.isHeapProfilerRunning

\* A fault may be injected only while the budget lasts.
FaultAllowed(o) == o = "ok" \/ hist.faults < MaxFaults

\* The outcomes to consider for a stop step: only "ok" when the step cannot run.
StepChoices(canRun) ==
  IF canRun THEN {o \in Outcomes : FaultAllowed(o)} ELSE {"ok"}

\* The outcomes to consider for a start() call.
StartChoices(kind, canRun) ==
  IF canRun
  THEN {o \in StartOutcomes : o = "ok" \/ sampler[kind] \/ hist.faults < MaxFaults}
  ELSE {"ok"}

NewInvocation(fn, by, generateHtml, code, s) ==
  [fn |-> fn, by |-> by, generateHtml |-> generateHtml, code |-> code,
   ts |-> now,
   began |-> {k \in Kinds : IF k = "cpu" THEN s.isCpuProfilerRunning
                                         ELSE s.isHeapProfilerRunning},
   cleared |-> {}, threw |-> "none", fault |-> "none", filenames |-> <<>>,
   pc |-> "running", ret |-> "pending"]

\* cpu-profile-${timestamp}.pb / heap-profile-${timestamp}.pb
PbName(kind, ts) == [kind |-> kind, ts |-> ts]

\* Defective variant: the timestamp is cut to a unit longer than the run.
CpuFilenameTsCoarse(s, i) == 0

\* The timestamp the CPU filename embeds: the const taken on entry.
CpuFilenameTs(s, i) == s.invocations[i].ts

\* Defective variant: the heap filename reads the clock again.
HeapFilenameTsFresh(s, i) == now

\* The timestamp the heap filename embeds: the same const.
HeapFilenameTs(s, i) == s.invocations[i].ts

\* fs.writeFileSync(filename, profile); filenames.push(filename)
WritePb(s, i, kind, ts) ==
  [s EXCEPT !.pbWritten = Append(@, [kind |-> kind, ts |-> ts, inv |-> i, at |-> now]),
            !.invocations[i].filenames = Append(@, PbName(kind, ts))]

\* Defective variant: the CPU flag is cleared right after the sampler stops, before the
\* profile is encoded and written.
StopCpuClearsFirst(s, i, o) ==
  IF o = "stopThrew" \/ ~s.sampler["cpu"]
  THEN [s EXCEPT !.invocations[i].threw = "cpu",
                 !.invocations[i].fault = "stopThrew",
                 !.hist.faults = IF o = "ok" THEN @ ELSE @ + 1]
  ELSE LET stopped == [s EXCEPT !.sampler["cpu"] = FALSE,
                                !.hist.stops["cpu"] = @ + 1,
                                !.isCpuProfilerRunning = FALSE,
                                !.invocations[i].cleared = @ \cup {"cpu"}]
       IN IF o = "ioThrew"
          THEN [stopped EXCEPT !.invocations[i].threw = "cpu",
                               !.invocations[i].fault = "ioThrew",
                               !.hist.faults = @ + 1]
          ELSE WritePb(stopped, i, "cpu", CpuFilenameTs(s, i))

\* The CPU block of a stop function: stop, encode, write, push, clear the flag.
\* A throw leaves the block at once (the caller's catch handles it).
StopCpu(s, i, o) ==
  IF o = "stopThrew" \/ ~s.sampler["cpu"]
  THEN [s EXCEPT !.invocations[i].threw = "cpu",
                 !.invocations[i].fault = "stopThrew",
                 !.hist.faults = IF o = "ok" THEN @ ELSE @ + 1]
  ELSE LET stopped == [s EXCEPT !.sampler["cpu"] = FALSE,
                                !.hist.stops["cpu"] = @ + 1]
       IN IF o = "ioThrew"
          THEN [stopped EXCEPT !.invocations[i].threw = "cpu",
                               !.invocations[i].fault = "ioThrew",
                               !.hist.faults = @ + 1]
          ELSE [WritePb(stopped, i, "cpu", CpuFilenameTs(s, i))
                  EXCEPT !.isCpuProfilerRunning = FALSE,
                         !.invocations[i].cleared = @ \cup {"cpu"}]

\* The heap block of a stop function: profile, stop, encode, write, push, clear.
StopHeap(s, i, o) ==
  IF o = "stopThrew" \/ ~s.sampler["heap"]
  THEN [s EXCEPT !.invocations[i].threw = "heap",
                 !.invocations[i].fault = "stopThrew",
                 !.hist.faults = IF o = "ok" THEN @ ELSE @ + 1]
  ELSE LET stopped == [s EXCEPT !.sampler["heap"] = FALSE,
                                !.hist.stops["heap"] = @ + 1]
       IN IF o = "ioThrew"
          THEN [stopped EXCEPT !.invocations[i].threw = "heap",
                               !.invocations[i].fault = "ioThrew",
                               !.hist.faults = @ + 1]
          ELSE [WritePb(stopped, i, "heap", HeapFilenameTs(s, i))
                  EXCEPT !.isHeapProfilerRunning = FALSE,
                         !.invocations[i].cleared = @ \cup {"heap"}]

\* The real process.exit: the process is gone, nothing runs after it.
originalExit(s, code) ==
  IF s.term.state = "running"
  THEN [s EXCEPT !.term = [state |-> "exited", code |-> code]]
  ELSE s

\* Defective variant: the handlers chained on the promise do not exit.
SettledWithoutExit(s, i) == [s EXCEPT !.invocations[i].pc = "returned"]

\* What follows the settling of the promise stopProfilerAndSave returned: the
\* process.exit patch chained .then / .catch (originalExit) on it.
Settled(s, i) ==
  LET r == [s EXCEPT !.invocations[i].pc = "returned"]
  IN IF r.invocations[i].by = "exit"
     THEN originalExit(r, r.invocations[i].code)
     ELSE r

\* catch (error): both flags cleared, return null.
Catch(s, i) ==
  Settled([s EXCEPT !.isCpuProfilerRunning = FALSE,
                    !.isHeapProfilerRunning = FALSE,
                    !.invocations[i].ret = "null"], i)

\* return filenames
Return(s, i) == Settled([s EXCEPT !.invocations[i].ret = "list"], i)

Render(i, file, fmt, awaited) ==
  [inv |-> i, kind |-> file.kind, ts |-> file.ts, fmt |-> fmt, awaited |-> awaited]

\* generateFlamegraph(...) or generateMarkdown(...) is called: the generation
\* is under way, its promise pending.
StartRender(s, r) ==
  [s EXCEPT !.renders = @ \cup {[job |-> r, state |-> "pending"]},
            !.hist.turnRenders = @ \cup {r}]

\* The promise of a generation settles.
SettleRender(s, r, ok) ==
  [s EXCEPT !.renders = (@ \ {[job |-> r, state |-> "pending"]})
                          \cup {[job |-> r, state |-> IF ok THEN "ok" ELSE "failed"]}]

\* cpuFilename / heapFilename: the name this invocation wrote for the kind.
FileOf(s, i, kind) ==
  LET names == s.invocations[i].filenames
  IN names[CHOOSE n \in 1..Len(names) : names[n].kind = kind]

\* await generateFlamegraph(<kind>Filename, htmlFilename): the function is
\* suspended at the await.
AwaitHtml(s, i, kind) ==
  LET file == FileOf(s, i, kind)
  IN [StartRender(s, Render(i, file, "html", TRUE))
        EXCEPT !.invocations[i].pc = IF kind = "cpu" THEN "cpuHtml" ELSE "heapHtml"]

\* await generateMarkdown(<kind>Filename, mdFilename, mdFormat)
AwaitMd(s, i, kind) ==
  LET file == FileOf(s, i, kind)
  IN [StartRender(s, Render(i, file, "md", TRUE))
        EXCEPT !.invocations[i].pc = IF kind = "cpu" THEN "cpuMd" ELSE "heapMd"]

\* stopProfilerAndSave from `if (isHeapProfilerRunning)` on.  The flag is read
\* when control gets here, which is after the awaits of the CPU block.
HeapPart(s, i, oh) ==
  IF s.isHeapProfilerRunning
  THEN LET h == StopHeap(s, i, oh)
       IN IF h.invocations[i].threw # "none" THEN Catch(h, i)
          ELSE IF h.invocations[i].generateHtml THEN AwaitHtml(h, i, "heap")
          ELSE Return(h, i)
  ELSE Return(s, i)

\* Defective variant: the stop functions do not return early.
NoEarlyReturn(s) == FALSE

\* if (!isCpuProfilerRunning && !isHeapProfilerRunning)
NothingRunning(s) == ~s.isCpuProfilerRunning /\ ~s.isHeapProfilerRunning

\* return null, before anything else is done.
ReturnNull(s) == [s EXCEPT !.hist.nullReturn = TRUE]

\* async function stopProfilerAndSave (generateHtml): the part that runs
\* synchronously in the caller's turn, up to the first await or the return.
stopProfilerAndSave(s, generateHtml, by, code, oc, oh) ==
  IF NothingRunning(s)
  THEN ReturnNull(s)
  ELSE LET i == Len(s.invocations) + 1
           e == [s EXCEPT !.invocations =
                   Append(@, NewInvocation("stopProfilerAndSave", by, generateHtml, code, s))]
       IN IF e.isCpuProfilerRunning
          THEN LET c == StopCpu(e, i, oc)
               IN IF c.invocations[i].threw # "none" THEN Catch(c, i)
                  ELSE IF generateHtml THEN AwaitHtml(c, i, "cpu")
                  ELSE HeapPart(c, i, oh)
          ELSE HeapPart(e, i, oh)

\* The generation stopProfilerAndSave is suspended on.
Awaited(s, i) ==
  LET pc == s.invocations[i].pc
  IN Render(i, FileOf(s, i, IF pc \in {"cpuHtml", "cpuMd"} THEN "cpu" ELSE "heap"),
            IF pc \in {"cpuHtml", "heapHtml"} THEN "html" ELSE "md", TRUE)

\* What follows the try / catch around an await in stopProfilerAndSave.
AfterAwait(s, i, oh) ==
  LET pc == s.invocations[i].pc
  IN CASE pc = "cpuHtml" -> AwaitMd(s, i, "cpu")
       [] pc = "cpuMd" -> HeapPart(s, i, oh)
       [] pc = "heapHtml" -> AwaitMd(s, i, "heap")
       [] pc = "heapMd" -> Return(s, i)

\* Defective variant: the awaits are not wrapped, a failed generation reaches
\* the outer catch.
resumeEscalatesFailure(s, i, ok, oh) ==
  LET d == SettleRender(s, Awaited(s, i), ok)
  IN IF ok THEN AfterAwait(d, i, oh) ELSE Catch(d, i)

\* Defective variant: one try / catch around the HTML and the markdown
\* generation of an artifact, so a failed HTML generation skips the markdown.
resumeSkipsMarkdown(s, i, ok, oh) ==
  LET d == SettleRender(s, Awaited(s, i), ok)
      pc == s.invocations[i].pc
  IN IF ok THEN AfterAwait(d, i, oh)
     ELSE CASE pc \in {"cpuHtml", "cpuMd"} -> HeapPart(d, i, oh)
            [] pc \in {"heapHtml", "heapMd"} -> Return(d, i)

\* stopProfilerAndSave resumed after an await: the awaited generation has
\* settled (ok or not: both are caught and logged).
resumeStopProfilerAndSave(s, i, ok, oh) ==
  AfterAwait(SettleRender(s, Awaited(s, i), ok), i, oh)

\* function stopProfilerQuick (): synchronous, no generation.
stopProfilerQuick(s, by, oc, oh) ==
  IF NothingRunning(s)
  THEN ReturnNull(s)
  ELSE LET i == Len(s.invocations) + 1
           e == [s EXCEPT !.invocations =
                   Append(@, NewInvocation("stopProfilerQuick", by, FALSE, 0, s))]
           c == IF e.isCpuProfilerRunning THEN StopCpu(e, i, oc) ELSE e
       IN IF c.invocations[i].threw # "none" THEN Catch(c, i)
          ELSE LET h == IF c.isHeapProfilerRunning THEN StopHeap(c, i, oh) ELSE c
               IN IF h.invocations[i].threw # "none" THEN Catch(h, i)
                  ELSE Return(h, i)

RECURSIVE generateHtmlAsyncFrom(_, _, _)
generateHtmlAsyncFrom(s, i, n) ==
  IF n > Len(s.invocations[i].filenames)
  THEN s
  ELSE LET file == s.invocations[i].filenames[n]
       IN generateHtmlAsyncFrom(
            StartRender(StartRender(s, Render(i, file, "html", FALSE)),
                        Render(i, file, "md", FALSE)), i, n + 1)

\* function generateHtmlAsync (filenames): for each filename start the HTML
\* and the markdown generation, neither awaited.
generateHtmlAsync(s, i) == generateHtmlAsyncFrom(s, i, 1)

\* An exception nobody catches leaves a signal handler (or rejects the promise
\* of the auto-start's async function): the process dies with exit code 1,
\* without going through process.exit or beforeExit.
Uncaught(s) == [s EXCEPT !.term = [state |-> "crashed", code |-> 1]]

\* cpuProfiler.start(...) / heapProfiler.start(...): o = "throw" is the call
\* throwing.  A start on a sampler that is already running is recorded.
StartSampler(s, kind, o) ==
  LET n == IF s.sampler[kind]
           THEN [s EXCEPT !.hist.startedWhileRunning = @ \cup {kind}]
           ELSE s
  IN IF o = "throw"
     THEN [n EXCEPT !.hist.faults = IF s.sampler[kind] THEN @ ELSE @ + 1,
                    !.hist.startThrew = TRUE]
     ELSE IF s.sampler[kind] THEN n
     ELSE [n EXCEPT !.sampler[kind] = TRUE, !.hist.starts[kind] = @ + 1]

\* Defective variant: a manual toggle renders like an exit does.
ToggleGenerateHtmlOn == TRUE

\* The argument of stopProfilerAndSave in toggleProfiler.
ToggleGenerateHtml == FALSE

\* function toggleProfiler ()
toggleProfiler(s, sc, sh, oc, oh) ==
  IF ~s.isCpuProfilerRunning /\ ~s.isHeapProfilerRunning
  THEN LET c == StartSampler([s EXCEPT !.hist.startThrew = FALSE], "cpu", sc)
       IN IF c.hist.startThrew THEN Uncaught(c)
          ELSE LET h == StartSampler(c, "heap", sh)
               IN IF h.hist.startThrew THEN Uncaught(h)
                  ELSE [h EXCEPT !.isCpuProfilerRunning = TRUE,
                                 !.isHeapProfilerRunning = TRUE]
  ELSE stopProfilerAndSave(s, ToggleGenerateHtml, "toggle", 0, oc, oh)

\* Defective variant: the latch is not consulted.
ExitGuardNoLatch(s) == s.isCpuProfilerRunning \/ s.isHeapProfilerRunning

\* (isCpuProfilerRunning || isHeapProfilerRunning) && !exitHandlerCalled
ExitGuard(s) ==
  (s.isCpuProfilerRunning \/ s.isHeapProfilerRunning) /\ ~s.exitHandlerCalled

\* An exit trigger's handler is entered; remember whether a flag was set.
Triggered(s) ==
  [s EXCEPT !.hist.triggeredWhileRunning = @ \/ Running(s)]

\* process.on('beforeExit', async () => ...)
beforeExitHandler(s, oc, oh) ==
  IF ExitGuard(s)
  THEN stopProfilerAndSave([s EXCEPT !.exitHandlerCalled = TRUE],
                           TRUE, "beforeExit", 0, oc, oh)
  ELSE s

\* Defective variant: the patch exits at once, without the flush.
patchedExitAtOnce(s, code, oc, oh) == originalExit(s, code)

\* process.exit = function (code) ...
patchedExit(s, code, oc, oh) ==
  IF ExitGuard(s)
  THEN stopProfilerAndSave([s EXCEPT !.exitHandlerCalled = TRUE],
                           TRUE, "exit", code, oc, oh)
  ELSE originalExit(s, code)

\* Defective variant: process.exit(0) is called inside the `if`, so a signal
\* that finds nothing running is swallowed.
signalHandlerExitsInsideIf(s, sig, oc, oh) ==
  IF ExitGuard(s)
  THEN LET a == stopProfilerQuick([s EXCEPT !.exitHandlerCalled = TRUE], sig, oc, oh)
           i == Len(a.invocations)
       IN patchedExit(IF a.invocations[i].ret = "list" THEN generateHtmlAsync(a, i) ELSE a,
                      0, oc, oh)
  ELSE s

\* process.on('SIGINT', ...) and process.on('SIGTERM', ...): the same text.
signalHandler(s, sig, oc, oh) ==
  LET q == IF ExitGuard(s)
           THEN LET a == stopProfilerQuick([s EXCEPT !.exitHandlerCalled = TRUE],
                                           sig, oc, oh)
                    i == Len(a.invocations)
                IN IF a.invocations[i].ret = "list"
                   THEN generateHtmlAsync(a, i)
                   ELSE a
           ELSE s
  IN patchedExit(q, 0, oc, oh)

\* startProfiling from `toggleProfiler()` on: after its await, or with no
\* await at all when there is no sourceMapperPromise.
resumeStartProfiling(s, sc, sh, oc, oh) ==
  toggleProfiler([s EXCEPT !.startup.stage = "called",
                           !.hist.autoToggles = @ + 1], sc, sh, oc, oh)

\* Defective variant: startProfiling does not wait for the sourcemaps.
startProfilingNoAwait(s, sc, sh, oc, oh) ==
  resumeStartProfiling(s, sc, sh, oc, oh)

\* async function startProfiling (): up to the await of a promise that is
\* still pending; an await of a settled promise resumes before the turn ends.
startProfiling(s, sc, sh, oc, oh) ==
  IF s.sourceMapperPromise = "pending"
  THEN [s EXCEPT !.startup.stage = "await"]
  ELSE resumeStartProfiling(s, sc, sh, oc, oh)

\* Defective variant: 'until-started' is not told apart from 'none'.
DelayBranchAlwaysNone(s, delayValue, sc, sh) ==
  startProfiling([s EXCEPT !.startup.delayValue = delayValue], sc, sh, "ok", "ok")

\* The delay dispatch of the auto-start block: call startProfiling at once,
\* or schedule it.
DelayBranch(s, delayValue, sc, sh) ==
  LET d == [s EXCEPT !.startup.delayValue = delayValue]
  IN CASE delayValue \in {"none", "invalid"} -> startProfiling(d, sc, sh, "ok", "ok")
       [] delayValue = "until-started" -> [d EXCEPT !.startup.stage = "immediate"]
       [] delayValue = "ms" -> [d EXCEPT !.startup.stage = "timer"]

\* Defective variant: the auto-start block runs in manual mode too.
AutoStartAlways == TRUE

\* if (autoStart) { ... }
AutoStartEnabled == autoStart

\* A rejection of the promise startProfiling returned is unhandled.  In a
\* turn of the loop the process dies when the turn's microtasks are done; in
\* the bootstrap turn that is after the target's entry module has run.
UnhandledRejection(s, before) ==
  IF s.term.state = "crashed" /\ s.phase # "loop"
  THEN [s EXCEPT !.term = before.term, !.startup.stage = "rejected"]
  ELSE s

Suspended(s) ==
  {i \in 1..Len(s.invocations) : s.invocations[i].pc \notin {"running", "returned"}}

Alive == term.state = "running"

\* The event loop is turning: the bootstrap turn (the preload script, then
\* the synchronous part of the target's entry module) is over.
Looping == Alive /\ phase = "loop"

ControllerInit ==
  /\ autoStart \in BOOLEAN
  /\ autoStartPending = autoStart
  /\ isCpuProfilerRunning = FALSE
  /\ isHeapProfilerRunning = FALSE
  /\ sampler = [k \in Kinds |-> FALSE]
  /\ exitHandlerCalled = FALSE
  /\ now = 0
  /\ pbWritten = <<>>
  /\ invocations = <<>>
  /\ renders = {}
  /\ term = [state |-> "running", code |-> 0]
  /\ hist = [faults |-> 0, toggles |-> 0, exitCalls |-> 0,
             starts |-> [k \in Kinds |-> 0], stops |-> [k \in Kinds |-> 0],
             startedWhileRunning |-> {}, startThrew |-> FALSE,
             triggeredWhileRunning |-> FALSE, turnRenders |-> {},
             autoToggles |-> 0, nullReturn |-> FALSE]
  /\ phase = "preload"
  /\ sourceMapperPromise = "null"
  /\ startup = [stage |-> "unscheduled", delayValue |-> NoDelay]

\* Nothing of the library or of the command is in use.
LibraryIdle ==
  /\ sourceLine = <<>>
  /\ extracted = NotExtracted
  /\ profileFile = <<>>
  /\ parsed = NotParsed
  /\ flamegraph = NoFlamegraph
  /\ mapFile = NoMapFile
  /\ flamegraph = NoFlamegraph
  /\ mapFile = NoMapFile

\* The controller's runs: no location is resolved in them.
Init ==
  /\ ControllerInit
  /\ LibraryIdle
  /\ index = NoIndex
  /\ cli = NoCli
  /\ location = [file |-> GeneratedFile, line |-> 1, column |-> 1, name |-> "(anonymous)"]
  /\ infoMap = [file |-> GeneratedFile, mapFileDir |-> <<"dist">>, mappings |-> {},
                named |-> FALSE, extractedName |-> "null"]
  /\ resolved = NotResolved

\* SIGUSR2 is delivered: process.on('SIGUSR2', toggleProfiler).
Sigusr2 ==
  /\ Looping
  /\ hist.toggles < MaxToggles
  /\ \E sc \in StartChoices("cpu", ~Running(Cur)),
        sh \in StartChoices("heap", ~Running(Cur)),
        oc \in StepChoices(isCpuProfilerRunning),
        oh \in StepChoices(isHeapProfilerRunning) :
       /\ Commit(toggleProfiler([Cur EXCEPT !.hist.toggles = @ + 1], sc, sh, oc, oh))
  /\ UNCHANGED <<autoStart, autoStartPending, now>>

\* The preload script from its first line to its last.
preloadScript(s, sourcemaps, delayValue, sc, sh) ==
  LET p == [s EXCEPT !.phase = "main",
                     !.sourceMapperPromise = IF sourcemaps THEN "pending" ELSE "null"]
  IN IF AutoStartEnabled
     THEN UnhandledRejection(DelayBranch(p, delayValue, sc, sh), p)
     ELSE p

\* sourceMapperPromise is fulfilled, and a startProfiling that awaits it
\* runs on.
settleSourceMapper(s, ok, sc, sh, oc, oh) ==
  LET m == [s EXCEPT !.sourceMapperPromise = IF ok THEN "mapper" ELSE "failed"]
  IN IF m.startup.stage = "await"
     THEN resumeStartProfiling(m, sc, sh, oc, oh)
     ELSE m

\* The preload script runs (node -r preload.js): the sourcemap loading is
\* started when FLAME_SOURCEMAP_DIRS or FLAME_NODE_MODULES_SOURCE_MAPS name
\* something, the handlers are registered, and in auto-start mode the delay
\* dispatch runs.
Preload ==
  /\ Alive
  /\ phase = "preload"
  /\ \E sourcemaps \in BOOLEAN,
        delayValue \in (IF AutoStartEnabled THEN DelayValues ELSE {NoDelay}),
        sc \in StartChoices("cpu", AutoStartEnabled),
        sh \in StartChoices("heap", AutoStartEnabled) :
       LET b == preloadScript(Cur, sourcemaps, delayValue, sc, sh)
       IN /\ (b.startup.stage \notin {"called", "rejected"}) => (sc = "ok" /\ sh = "ok")
          /\ Commit(b)
          /\ autoStartPending' =
               (AutoStartEnabled /\ b.startup.stage \notin {"called", "rejected"})
  /\ UNCHANGED <<autoStart, now>>

\* The target's entry module runs: its first line, then the rest of its
\* synchronous startup code.  The bootstrap turn ends with it.
UserMain ==
  /\ Alive
  /\ phase = "main"
  /\ LET m == [Cur EXCEPT !.phase = "loop"]
     IN Commit(IF m.startup.stage = "rejected" THEN Uncaught(m) ELSE m)
  /\ UNCHANGED <<autoStart, autoStartPending, now>>

\* The check phase runs the setImmediate callback: setTimeout(startProfiling, 0).
Immediate ==
  /\ Looping
  /\ startup.stage = "immediate"
  /\ Commit([Cur EXCEPT !.startup.stage = "timer"])
  /\ UNCHANGED <<autoStart, autoStartPending, now>>

\* The delay of the pending timer has elapsed.
DelayElapses ==
  /\ Alive
  /\ startup.stage = "timer"
  /\ Commit([Cur EXCEPT !.startup.stage = "due"])
  /\ UNCHANGED <<autoStart, autoStartPending, now>>

\* The timers phase runs the due timer: startProfiling().
Timeout ==
  /\ Looping
  /\ startup.stage = "due"
  /\ \E sc \in StartChoices("cpu", sourceMapperPromise # "pending" /\ ~Running(Cur)),
        sh \in StartChoices("heap", sourceMapperPromise # "pending" /\ ~Running(Cur)),
        oc \in StepChoices(sourceMapperPromise # "pending" /\ isCpuProfilerRunning),
        oh \in StepChoices(sourceMapperPromise # "pending" /\ isHeapProfilerRunning) :
       LET r == startProfiling(Cur, sc, sh, oc, oh)
       IN /\ Commit(r)
          /\ autoStartPending' = (r.startup.stage # "called")
  /\ UNCHANGED <<autoStart, now>>

\* The sourcemap loading ends and sourceMapperPromise is fulfilled: with the
\* mapper (sourceMapper is set), or with null after a failure was caught and
\* logged.  A startProfiling that awaits it resumes in the same turn.
MapperSettled ==
  /\ Looping
  /\ sourceMapperPromise = "pending"
  /\ \E ok \in BOOLEAN,
        sc \in StartChoices("cpu", startup.stage = "await" /\ ~Running(Cur)),
        sh \in StartChoices("heap", startup.stage = "await" /\ ~Running(Cur)),
        oc \in StepChoices(startup.stage = "await" /\ isCpuProfilerRunning),
        oh \in StepChoices(startup.stage = "await" /\ isHeapProfilerRunning) :
       LET r == settleSourceMapper(Cur, ok, sc, sh, oc, oh)
       IN /\ Commit(r)
          /\ autoStartPending' = (autoStartPending /\ r.startup.stage # "called")
  /\ UNCHANGED <<autoStart, now>>

\* The event loop has nothing left to do: 'beforeExit' is emitted, and the
\* process ends unless a listener scheduled more work.  A pending auto-start
\* timer or a suspended stopProfilerAndSave keeps the loop alive.
BeforeExit ==
  /\ Looping
  /\ ~autoStartPending
  /\ sourceMapperPromise # "pending"
  /\ Suspended(Cur) = {}
  /\ \E oc \in StepChoices(AutoStartEnabled /\ ExitGuard(Cur) /\ isCpuProfilerRunning),
        oh \in StepChoices(AutoStartEnabled /\ ExitGuard(Cur) /\ isHeapProfilerRunning) :
       /\ LET h == IF AutoStartEnabled THEN beforeExitHandler(Triggered(Cur), oc, oh) ELSE Cur
          IN Commit(IF Suspended(h) = {} /\ h.term.state = "running"
                    THEN [h EXCEPT !.term = [state |-> "natural", code |-> 0]]
                    ELSE h)
  /\ UNCHANGED <<autoStart, autoStartPending, now>>

\* The target program calls process.exit(code): the patch in auto-start mode,
\* the real one otherwise.
ProcessExitCall ==
  /\ Looping
  /\ hist.exitCalls < MaxExitCalls
  /\ \E code \in ExitCodes,
        oc \in StepChoices(AutoStartEnabled /\ ExitGuard(Cur) /\ isCpuProfilerRunning),
        oh \in StepChoices(AutoStartEnabled /\ ExitGuard(Cur) /\ isHeapProfilerRunning) :
       /\ LET s == [Cur EXCEPT !.hist.exitCalls = @ + 1]
          IN Commit(IF AutoStartEnabled THEN patchedExit(Triggered(s), code, oc, oh)
                                 ELSE originalExit(s, code))
  /\ UNCHANGED <<autoStart, autoStartPending, now>>

\* SIGINT or SIGTERM is delivered: the handler in auto-start mode, the default
\* disposition (the signal kills the process) otherwise.
Signal(sig) ==
  /\ Looping
  /\ \E oc \in StepChoices(AutoStartEnabled /\ ExitGuard(Cur) /\ isCpuProfilerRunning),
        oh \in StepChoices(AutoStartEnabled /\ ExitGuard(Cur) /\ isHeapProfilerRunning) :
       /\ Commit(IF AutoStartEnabled THEN signalHandler(Triggered(Cur), sig, oc, oh)
                 ELSE [Cur EXCEPT !.term = [state |-> "killed", code |-> 0]])
  /\ UNCHANGED <<autoStart, autoStartPending, now>>

Sigint == Signal("SIGINT")

Sigterm == Signal("SIGTERM")

\* An awaited generation settles and stopProfilerAndSave runs on to its next
\* await or to its return.
Resume ==
  /\ Alive
  /\ \E i \in Suspended(Cur), ok \in BOOLEAN :
     \E oh \in StepChoices(invocations[i].pc = "cpuMd" /\ isHeapProfilerRunning) :
       /\ Commit(resumeStopProfilerAndSave(Cur, i, ok, oh))
  /\ UNCHANGED <<autoStart, autoStartPending, now>>

\* A millisecond passes.
Tick ==
  /\ Alive
  /\ now < MaxTime
  /\ now' = now + 1
  /\ UNCHANGED <<autoStart, autoStartPending, isCpuProfilerRunning,
                 isHeapProfilerRunning, sampler, exitHandlerCalled, pbWritten,
                 invocations, renders, term, hist, phase, sourceMapperPromise,
                 startup, location, infoMap, resolved, index, sourceLine,
                 extracted, profileFile, parsed, cli, flamegraph, mapFile>>

Next ==
  \/ Preload
  \/ UserMain
  \/ Immediate
  \/ DelayElapses
  \/ Timeout
  \/ MapperSettled
  \/ Sigusr2
  \/ BeforeExit
  \/ ProcessExitCall
  \/ Sigint
  \/ Sigterm
  \/ Resume
  \/ Tick

Spec == Init /\ [][Next]_vars

(***************************************************************************)
(* The resolver on its own: a location and a sourcemap are drawn, and      *)
(* mappingInfo, or the lookup it replaces, is applied to them.             *)
(***************************************************************************)

ResolveInit ==
  /\ ControllerInit
  /\ LibraryIdle
  /\ index = NoIndex
  /\ cli = NoCli
  /\ location \in Locations
  /\ infoMap \in InfoMaps
  /\ resolved = NotResolved

\* The profile serializer calls sourceMapper.mappingInfo(location).
Resolve ==
  /\ resolved.by = "none"
  /\ LET r == mappingInfo(infoMap, location)
     IN resolved' = [by |-> "mappingInfo", threw |-> r.threw, value |-> r.value]
  /\ UNCHANGED <<location, infoMap, index, cli>>
  /\ UNCHANGED libraryVars
  /\ UNCHANGED controllerVars

\* The same location resolved with the default lookup alone.
ResolveStrict ==
  /\ resolved.by = "none"
  /\ LET r == strictMappingInfo(infoMap, location)
     IN resolved' = [by |-> "strict", threw |-> r.threw, value |-> r.value]
  /\ UNCHANGED <<location, infoMap, index, cli>>
  /\ UNCHANGED libraryVars
  /\ UNCHANGED controllerVars

ResolveNext ==
  \/ Resolve
  \/ ResolveStrict

ResolveSpec == ResolveInit /\ [][ResolveNext]_vars

(***************************************************************************)
(* Name extraction on its own: a source line is drawn and                  *)
(* extractFunctionName is applied to it.                                   *)
(***************************************************************************)

ExtractInit ==
  /\ ControllerInit
  /\ location = [file |-> GeneratedFile, line |-> 1, column |-> 1, name |-> "(anonymous)"]
  /\ infoMap = [file |-> GeneratedFile, mapFileDir |-> <<"dist">>, mappings |-> {},
                named |-> FALSE, extractedName |-> "null"]
  /\ resolved = NotResolved
  /\ index = NoIndex
  /\ cli = NoCli
  /\ sourceLine \in SourceLines
  /\ extracted = NotExtracted
  /\ profileFile = <<>>
  /\ parsed = NotParsed
  /\ flamegraph = NoFlamegraph
  /\ mapFile = NoMapFile

\* mappingInfo hands the line of sourcesContent to extractFunctionName.
Extract ==
  /\ extracted.by = "none"
  /\ extracted' = [by |-> "extractFunctionName", name |-> extractFunctionName(sourceLine)]
  /\ UNCHANGED <<sourceLine, profileFile, parsed, index, cli, flamegraph, mapFile>>
  /\ UNCHANGED resolverVars
  /\ UNCHANGED controllerVars

ExtractNext == Extract

ExtractSpec == ExtractInit /\ [][ExtractNext]_vars

(***************************************************************************)
(* parseProfile on its own: the bytes of an uncompressed file are drawn,   *)
(* and parseProfile is applied to that file and to its gzip-compressed     *)
(* form.                                                                   *)
(***************************************************************************)

ParseInit ==
  /\ ControllerInit
  /\ location = [file |-> GeneratedFile, line |-> 1, column |-> 1, name |-> "(anonymous)"]
  /\ infoMap = [file |-> GeneratedFile, mapFileDir |-> <<"dist">>, mappings |-> {},
                named |-> FALSE, extractedName |-> "null"]
  /\ resolved = NotResolved
  /\ index = NoIndex
  /\ cli = NoCli
  /\ sourceLine = <<>>
  /\ extracted = NotExtracted
  /\ profileFile \in ByteStreams
  /\ parsed = NotParsed
  /\ flamegraph = NoFlamegraph
  /\ mapFile = NoMapFile

\* parseProfile(path of the uncompressed file)
ParsePlain ==
  /\ "plain" \notin parsed.called
  /\ parsed' = [parsed EXCEPT !.plain = parseProfile(profileFile),
                              !.called = @ \cup {"plain"}]
  /\ UNCHANGED <<sourceLine, extracted, profileFile, index, cli, flamegraph, mapFile>>
  /\ UNCHANGED resolverVars
  /\ UNCHANGED controllerVars

\* parseProfile(path of the gzip-compressed file)
ParseGzipped ==
  /\ "gz" \notin parsed.called
  /\ parsed' = [parsed EXCEPT !.gz = parseProfile(gzip(profileFile)),
                              !.called = @ \cup {"gz"}]
  /\ UNCHANGED <<sourceLine, extracted, profileFile, index, cli, flamegraph, mapFile>>
  /\ UNCHANGED resolverVars
  /\ UNCHANGED controllerVars

ParseNext ==
  \/ ParsePlain
  \/ ParseGzipped

ParseSpec == ParseInit /\ [][ParseNext]_vars

(***************************************************************************)
(* The start of the profiled process with the sourcemap initialisation     *)
(* spelled out: what is configured is drawn, the two loads settle in       *)
(* either order, each with the entries it found or with a failure, and     *)
(* SIGUSR2 and the auto-start start the profilers before or after.         *)
(***************************************************************************)

IndexInit ==
  /\ ControllerInit
  /\ LibraryIdle
  /\ location = [file |-> GeneratedFile, line |-> 1, column |-> 1, name |-> "(anonymous)"]
  /\ infoMap = [file |-> GeneratedFile, mapFileDir |-> <<"dist">>, mappings |-> {},
                named |-> FALSE, extractedName |-> "null"]
  /\ resolved = NotResolved
  /\ cli = NoCli
  /\ index \in {[NoIndex EXCEPT !.dirs = d, !.mods = m] : d, m \in BOOLEAN}

\* The preload script, the initialisation started as the environment says.
IndexPreload ==
  /\ Alive
  /\ phase = "preload"
  /\ \E delayValue \in (IF AutoStartEnabled THEN DelayValues ELSE {NoDelay}),
        sc \in StartChoices("cpu", AutoStartEnabled),
        sh \in StartChoices("heap", AutoStartEnabled) :
       LET b == preloadScript(Cur, index.dirs \/ index.mods, delayValue, sc, sh)
       IN /\ (b.startup.stage \notin {"called", "rejected"}) => (sc = "ok" /\ sh = "ok")
          /\ Assign(b)
          /\ autoStartPending' =
               (AutoStartEnabled /\ b.startup.stage \notin {"called", "rejected"})
  /\ index' = startInitialisation(index)
  /\ UNCHANGED <<autoStart, now>>

\* The turn in which one of the two loads settles: the initialisation runs
\* on, and when it returns or fails, sourceMapperPromise is fulfilled.
InitialisationTurn(idx) ==
  /\ \E sc \in StartChoices("cpu", startup.stage = "await" /\ ~Running(Cur)),
        sh \in StartChoices("heap", startup.stage = "await" /\ ~Running(Cur)),
        oc \in StepChoices(startup.stage = "await" /\ isCpuProfilerRunning),
        oh \in StepChoices(startup.stage = "await" /\ isHeapProfilerRunning) :
       LET r == IF idx.iife = index.iife \/ idx.iife = "merge"
                THEN Cur
                ELSE settleSourceMapper(Cur, idx.iife = "done", sc, sh, oc, oh)
       IN /\ (r = Cur) => (sc = "ok" /\ sh = "ok" /\ oc = "ok" /\ oh = "ok")
          /\ Assign(r)
          /\ autoStartPending' = (autoStartPending /\ r.startup.stage # "called")
  /\ index' = idx
  /\ UNCHANGED <<autoStart, now>>

\* SourceMapper.create(dirs) settles.
CreateSettles ==
  /\ Looping
  /\ index.create = "unsettled"
  /\ \E ok \in BOOLEAN, entries \in SUBSET DirEntries :
       /\ ~ok => entries = {}
       /\ InitialisationTurn(advance(created(index, ok, entries)))

\* loadNodeModulesSourceMaps settles.
LoadSettles ==
  /\ Looping
  /\ index.load = "unsettled"
  /\ \E ok \in BOOLEAN, entries \in SUBSET PackageEntries :
       /\ ~ok => entries = {}
       /\ InitialisationTurn(advance(nodeModulesSettled(index, ok, entries)))

\* A profile is serialized and a frame's file is looked up.
Lookup ==
  /\ Looping
  /\ index.sourceMapper
  /\ \E inputPath \in Paths : index' = getMappingInfo(index, inputPath)
  /\ UNCHANGED controllerVars
  /\ UNCHANGED outsideVars

IndexNext ==
  \/ IndexPreload
  \/ UserMain
  \/ Immediate
  \/ DelayElapses
  \/ Timeout
  \/ Sigusr2
  \/ CreateSettles
  \/ LoadSettles
  \/ Lookup

IndexSpec == IndexInit /\ [][IndexNext]_vars

(***************************************************************************)
(* The run command and the profiled process it spawns, for as long as the  *)
(* command lives.                                                          *)
(***************************************************************************)

CliInit ==
  /\ ControllerInit
  /\ LibraryIdle
  /\ index = NoIndex
  /\ location = [file |-> GeneratedFile, line |-> 1, column |-> 1, name |-> "(anonymous)"]
  /\ infoMap = [file |-> GeneratedFile, mapFileDir |-> <<"dist">>, mappings |-> {},
                named |-> FALSE, extractedName |-> "null"]
  /\ resolved = NotResolved
  /\ cli \in {NewCli(script, delay, manual, dirs, flameDelay) :
                script \in ScriptArgs, delay \in DelayArgs, manual \in BOOLEAN,
                dirs \in DirArgs, flameDelay \in InheritedDelays}
  /\ autoStart = ControllerReads(ChildEnvironment(cli.env, RunOptions(cli))).autoStart

\* What a turn of the command leaves alone.
CommandTurn(c) ==
  /\ cli' = c
  /\ UNCHANGED controllerVars
  /\ UNCHANGED resolverVars
  /\ UNCHANGED libraryVars
  /\ UNCHANGED index

CommandLives == cli.pc \in {"running", "stopping"}

\* main() of the command.
Run ==
  /\ cli.pc = "start"
  /\ CommandTurn(runCommand(cli))

\* The preload script in the child, with the environment it was spawned with.
ChildPreload ==
  /\ CommandLives
  /\ Alive
  /\ phase = "preload"
  /\ LET reads == ControllerReads(cli.childEnv)
     IN \E sc \in StartChoices("cpu", AutoStartEnabled),
           sh \in StartChoices("heap", AutoStartEnabled) :
          LET b == preloadScript(Cur,
                                 reads.sourcemapDirs # "unset" \/ reads.nodeModulesSourceMaps # "unset",
                                 IF AutoStartEnabled THEN reads.delayValue ELSE NoDelay,
                                 sc, sh)
          IN /\ (b.startup.stage \notin {"called", "rejected"}) => (sc = "ok" /\ sh = "ok")
             /\ Commit(b)
             /\ autoStartPending' =
                  (AutoStartEnabled /\ b.startup.stage \notin {"called", "rejected"})
  /\ UNCHANGED <<autoStart, now>>

\* A turn of the child's event loop.
ChildTurn ==
  /\ CommandLives
  /\ \/ UserMain
     \/ Immediate
     \/ DelayElapses
     \/ Timeout
     \/ MapperSettled
     \/ Resume
     \/ BeforeExit

\* The SIGTERM the command sent is delivered to the child.
ChildSigterm ==
  /\ CommandLives
  /\ \E n \in 1..Len(cli.sent) : cli.sent[n] = "SIGTERM"
  /\ Sigterm

\* CTRL-C: SIGINT is delivered to the command.
Interrupt ==
  /\ CommandLives
  /\ cli.interrupts < MaxInterrupts
  /\ CommandTurn(interruptHandler(cli))

\* The delay of the timer that was armed first has passed.
GraceElapses ==
  /\ CommandLives
  /\ cli.timers # <<>>
  /\ ~cli.due
  /\ CommandTurn([cli EXCEPT !.due = TRUE])

\* The timers phase of the command runs the due callback.
GraceTimeout ==
  /\ CommandLives
  /\ cli.due
  /\ CommandTurn(graceCallback(cli))

\* The child has ended: 'close' is emitted with its exit code, null after a
\* death by signal, which process.exit takes for 0.
ChildCloses ==
  /\ CommandLives
  /\ ~Alive
  /\ CommandTurn(closeHandler(cli, term.code))

CliNext ==
  \/ Run
  \/ ChildPreload
  \/ ChildTurn
  \/ ChildSigterm
  \/ Interrupt
  \/ GraceElapses
  \/ GraceTimeout
  \/ ChildCloses

CliSpec == CliInit /\ [][CliNext]_vars

\* The timers of the command run (a due callback is run, and the delay of an
\* armed timer passes), and the close of a dead child is emitted.
CliFairSpec ==
  /\ CliSpec
  /\ WF_vars(GraceElapses)
  /\ WF_vars(GraceTimeout)
  /\ WF_vars(ChildCloses)

(***************************************************************************)
(* generateFlamegraph of the library and of the preload script on its own: *)
(* the child was spawned, and its events are delivered one by one.         *)
(***************************************************************************)

FlamegraphInit ==
  /\ ControllerInit
  /\ location = [file |-> GeneratedFile, line |-> 1, column |-> 1, name |-> "(anonymous)"]
  /\ infoMap = [file |-> GeneratedFile, mapFileDir |-> <<"dist">>, mappings |-> {},
                named |-> FALSE, extractedName |-> "null"]
  /\ resolved = NotResolved
  /\ index = NoIndex
  /\ cli = NoCli
  /\ sourceLine = <<>>
  /\ extracted = NotExtracted
  /\ profileFile = <<>>
  /\ parsed = NotParsed
  /\ mapFile = NoMapFile
  /\ flamegraph \in {[NoFlamegraph EXCEPT !.impl = impl, !.events = events] :
                       impl \in {"lib", "preload"}, events \in ChildEvents}

\* The next event of the child is emitted: after is what its listener
\* leaves.
Emit(type, after) ==
  /\ flamegraph.events # <<>>
  /\ Head(flamegraph.events).type = type
  /\ flamegraph' = [after EXCEPT !.events = Tail(@),
                             !.delivered = Append(@, Head(flamegraph.events))]
  /\ UNCHANGED <<sourceLine, extracted, profileFile, parsed, index, cli, mapFile>>
  /\ UNCHANGED resolverVars
  /\ UNCHANGED controllerVars

FlamegraphData == Emit("data", onData(flamegraph, Head(flamegraph.events)))

FlamegraphClose == Emit("close", onClose(flamegraph, Head(flamegraph.events)))

FlamegraphError == Emit("error", onError(flamegraph, Head(flamegraph.events)))

FlamegraphNext ==
  \/ FlamegraphData
  \/ FlamegraphClose
  \/ FlamegraphError

FlamegraphSpec == FlamegraphInit /\ [][FlamegraphNext]_vars

(***************************************************************************)
(* processSourceMapFile on its own: a map file and the files around it are *)
(* drawn, and the function is applied.                                     *)
(***************************************************************************)

MapFileInit ==
  /\ ControllerInit
  /\ location = [file |-> GeneratedFile, line |-> 1, column |-> 1, name |-> "(anonymous)"]
  /\ infoMap = [file |-> GeneratedFile, mapFileDir |-> <<"dist">>, mappings |-> {},
                named |-> FALSE, extractedName |-> "null"]
  /\ resolved = NotResolved
  /\ index = NoIndex
  /\ cli = NoCli
  /\ sourceLine = <<>>
  /\ extracted = NotExtracted
  /\ profileFile = <<>>
  /\ parsed = NotParsed
  /\ flamegraph = NoFlamegraph
  /\ mapFile \in {[NoMapFile EXCEPT !.path = p, !.readable = r, !.parses = c,
                                    !.file = f, !.exists = e] :
                    p \in MapPaths, r \in BOOLEAN, c \in BOOLEAN,
                    f \in DeclaredFiles, e \in SUBSET GeneratedPaths}

\* processSourceMapFile(mapPath) is called and its promise fulfilled.
ProcessMapFile ==
  /\ ~mapFile.called
  /\ mapFile' = [mapFile EXCEPT !.called = TRUE, !.result = processSourceMapFile(mapFile)]
  /\ UNCHANGED <<sourceLine, extracted, profileFile, parsed, index, cli, flamegraph>>
  /\ UNCHANGED resolverVars
  /\ UNCHANGED controllerVars

MapFileSpec == MapFileInit /\ [][ProcessMapFile]_vars

(***************************************************************************)
(* startProfiling of the library called by a program, with any options.    *)
(***************************************************************************)

\* options.env where the caller gives one.
CallerEnvs ==
  {[Environment(flameDelay) EXCEPT !.FLAME_AUTO_START = flag] :
     flameDelay \in InheritedDelays, flag \in {"unset", "true", "false"}}

CallerOptions ==
  {[NoOptions EXCEPT !.autoStart = a] : a \in BOOLEAN}
    \cup {[NoOptions EXCEPT !.autoStart = a, !.hasEnv = TRUE, !.env = e] :
            a \in BOOLEAN, e \in CallerEnvs}

StartInit ==
  /\ ControllerInit
  /\ LibraryIdle
  /\ index = NoIndex
  /\ location = [file |-> GeneratedFile, line |-> 1, column |-> 1, name |-> "(anonymous)"]
  /\ infoMap = [file |-> GeneratedFile, mapFileDir |-> <<"dist">>, mappings |-> {},
                named |-> FALSE, extractedName |-> "null"]
  /\ resolved = NotResolved
  /\ cli \in {[NoCli EXCEPT !.env = Environment(flameDelay), !.options = o] :
                flameDelay \in InheritedDelays, o \in CallerOptions}
  /\ autoStart = ControllerReads(ChildEnvironment(cli.env, cli.options)).autoStart

\* startProfiling(script, args, options): the child is spawned.
StartProfilingCall ==
  /\ cli.pc = "none"
  /\ cli.child = "none"
  /\ CommandTurn([cli EXCEPT !.child = "running",
                             !.childEnv = ChildEnvironment(cli.env, cli.options)])

StartSpec == StartInit /\ [][StartProfilingCall]_vars

(***************************************************************************)
(* The start of the profiled process and its toggles, with the two stop    *)
(* functions also invoked while neither sub-profiler is running, which    *)
(* none of the script's handlers does.                                     *)
(***************************************************************************)

\* stopProfilerAndSave(generateHtml) is invoked with both flags clear.
StopAndSaveCall ==
  /\ Looping
  /\ ~isCpuProfilerRunning /\ ~isHeapProfilerRunning
  /\ \E generateHtml \in BOOLEAN :
       Commit(stopProfilerAndSave(Cur, generateHtml, "call", 0, "ok", "ok"))
  /\ UNCHANGED <<autoStart, autoStartPending, now>>

\* stopProfilerQuick() is invoked with both flags clear.
QuickStopCall ==
  /\ Looping
  /\ ~isCpuProfilerRunning /\ ~isHeapProfilerRunning
  /\ Commit(stopProfilerQuick(Cur, "call", "ok", "ok"))
  /\ UNCHANGED <<autoStart, autoStartPending, now>>

CallNext ==
  \/ Preload
  \/ UserMain
  \/ Immediate
  \/ DelayElapses
  \/ Timeout
  \/ MapperSettled
  \/ Sigusr2
  \/ StopAndSaveCall
  \/ QuickStopCall

CallSpec == Init /\ [][CallNext]_vars

(***************************************************************************)
(* The controller under fairness.  A generation that was started settles,  *)
(* so a suspended stopProfilerAndSave is resumed (weak fairness of Resume, *)
(* which is enabled exactly when the process is alive and an invocation is *)
(* suspended); and an event loop with nothing left to do emits             *)
(* 'beforeExit' (weak fairness of BeforeExit, enabled exactly when         *)
(* LoopEmpty holds, and every such step leaves LoopEmpty).  Both are       *)
(* stated through the enabling conditions.                                 *)
(***************************************************************************)

\* The guard of BeforeExit.
LoopEmpty ==
  /\ Looping
  /\ ~autoStartPending
  /\ sourceMapperPromise # "pending"
  /\ Suspended(Cur) = {}

FlushSpec ==
  /\ Init
  /\ [][Next]_vars
  /\ []<>(~Alive \/ Suspended(Cur) = {})
  /\ []<>(~LoopEmpty)

(***************************************************************************)
(* The properties.                                                         *)
(***************************************************************************)

Invs == 1..Len(invocations)

\* The number of <kind>-profile-*.pb files written so far.
WrittenCount(kind) ==
  Cardinality({n \in 1..Len(pbWritten) : pbWritten[n].kind = kind})

\* The number of start->stop pairs completed for the sub-profiler: stops of
\* it that ran to the clearing of its flag.
CompletedPairs(kind) ==
  Cardinality({i \in Invs : kind \in invocations[i].cleared})

\* 1 while the sampler is in a running period, else 0.
Open(kind) == IF sampler[kind] THEN 1 ELSE 0

\* C1: per sub-profiler, the number of .pb files written equals the number of
\* start->stop pairs completed, never more: it equals the number of stops
\* that ran through, never exceeds the number of times the sampler was
\* stopped or started, and while no call has thrown it is exactly the number
\* of sampler starts that have been stopped again.
C1_PbPerCompletedPair ==
  \A k \in Kinds :
    /\ WrittenCount(k) = CompletedPairs(k)
    /\ WrittenCount(k) <= hist.stops[k]
    /\ hist.stops[k] <= hist.starts[k]
    /\ hist.faults = 0 => WrittenCount(k) = hist.starts[k] - Open(k)

\* Two complete start->stop pairs, the first one ended by a toggle: two
\* files of each kind.
C1_Witness ==
  /\ hist.faults = 0
  /\ \A k \in Kinds : WrittenCount(k) = 2 /\ hist.starts[k] = 2
  /\ \E i \in Invs : invocations[i].by = "toggle" /\ invocations[i].cleared = Kinds

\* C2: a sampler's start is never invoked while that sampler is already
\* running (at most one running period between a start and its stop).
C2_StartOnlyWhenStopped == hist.startedWhileRunning = {}

\* C3: when both sub-profilers are running and encoding or writing the CPU
\* profile throws, the stop still stops the heap sampler, writes the heap
\* profile and returns its filename.
C3_HeapSurvivesCpuFailure ==
  \A i \in Invs :
    (/\ invocations[i].began = Kinds
     /\ invocations[i].threw = "cpu"
     /\ invocations[i].fault = "ioThrew"
     /\ invocations[i].pc = "returned")
    => /\ invocations[i].ret = "list"
       /\ \E n \in 1..Len(invocations[i].filenames) :
            invocations[i].filenames[n].kind = "heap"
       /\ \E n \in 1..Len(pbWritten) :
            pbWritten[n].kind = "heap" /\ pbWritten[n].inv = i

\* How many times an exit trigger ran the stop-and-flush sequence.
ExitFlushCount ==
  Cardinality({i \in Invs : invocations[i].by \in ExitOrigins})

\* The process ended through one of the four exit triggers.
ExitedByTrigger == term.state \in {"exited", "natural"}

\* C4 as stated: in auto-start mode, whenever the process terminates after a
\* sub-profiler has been running, the exit stop-and-flush sequence has
\* executed exactly once.
C4_FlushExactlyOnceAfterAnyRun ==
  (autoStart /\ ExitedByTrigger /\ \E k \in Kinds : hist.starts[k] > 0)
  => ExitFlushCount = 1

\* C4 amended: in auto-start mode the exit stop-and-flush sequence executes
\* at most once (the latch is set exactly when it has), and whenever the
\* process terminates after an exit trigger fired while a sub-profiler's
\* running flag was set, it has executed exactly once.
C4_FlushOncePerExit ==
  /\ ExitFlushCount <= 1
  /\ exitHandlerCalled <=> ExitFlushCount = 1
  /\ hist.triggeredWhileRunning => ExitFlushCount = 1
  /\ (ExitedByTrigger /\ hist.triggeredWhileRunning) => ExitFlushCount = 1

\* beforeExit ran the flush, and a later trigger ended the process without
\* running it again.
C4_Witness ==
  /\ term.state = "exited"
  /\ hist.triggeredWhileRunning
  /\ \E i \in Invs : invocations[i].by = "beforeExit"
  /\ ExitFlushCount = 1

\* C5: a stop sequence, once begun, completes for every sub-profiler that was
\* running when it began: if no step of it threw, each of them has had its
\* flag cleared and its .pb written (by this sequence or by one that ran at
\* one of its suspension points) before the process terminates.
C5_StopSequenceCompletes ==
  term.state # "running" =>
    \A i \in Invs :
      invocations[i].threw = "none" =>
        \A k \in invocations[i].began :
          \E j \in Invs : j >= i /\ k \in invocations[j].cleared

\* C6: every artifact of one invocation of stopProfilerAndSave or
\* stopProfilerQuick embeds the one timestamp taken on entry: the .pb files
\* written, the filenames returned, and the HTML / markdown files derived.
C6_OneTimestampPerStop ==
  /\ \A n \in 1..Len(pbWritten) :
       pbWritten[n].ts = invocations[pbWritten[n].inv].ts
  /\ \A i \in Invs : \A n \in 1..Len(invocations[i].filenames) :
       invocations[i].filenames[n].ts = invocations[i].ts
  /\ \A r \in renders : r.job.ts = invocations[r.job.inv].ts
  /\ \A m, n \in 1..Len(pbWritten) :
       pbWritten[m].inv = pbWritten[n].inv => pbWritten[m].ts = pbWritten[n].ts

\* One invocation wrote the CPU profile, was suspended while the clock moved
\* on, and then wrote the heap profile.
C6_Witness ==
  \E m, n \in 1..Len(pbWritten) :
    /\ pbWritten[m].inv = pbWritten[n].inv
    /\ pbWritten[m].kind = "cpu" /\ pbWritten[n].kind = "heap"
    /\ pbWritten[m].at < pbWritten[n].at

\* C7: on the graceful paths the real process.exit is not invoked until the
\* awaited stopProfilerAndSave(true) has settled, and for an explicit exit
\* the process then terminates with the code that was passed.
C7_GracefulExitWaits ==
  term.state = "exited" =>
    \A i \in Invs :
      invocations[i].by \in {"beforeExit", "exit"} =>
        /\ invocations[i].pc = "returned"
        /\ invocations[i].by = "exit" => term.code = invocations[i].code

\* C8: on SIGINT / SIGTERM the real exit is not invoked in the turn that
\* started the fire-and-forget HTML and markdown generation.
C8_ExitAfterRenderTurn ==
  term.state = "exited" => \A r \in hist.turnRenders : r.awaited

\* C9: on SIGINT / SIGTERM with the latch unset, every running sub-profiler
\* whose own stop, encode and write did not throw has its .pb written in the
\* handler's turn, before the handler invokes process exit.
C9_QuickStopWritesAll ==
  \A i \in Invs :
    invocations[i].by \in {"SIGINT", "SIGTERM"} =>
      \A k \in invocations[i].began :
        invocations[i].threw # k =>
          /\ k \in invocations[i].cleared
          /\ \E n \in 1..Len(pbWritten) :
               pbWritten[n].kind = k /\ pbWritten[n].inv = i

\* C10: a stop caused by toggleProfiler never triggers HTML or markdown
\* generation, in manual mode and in auto-start mode: it asks for none, runs
\* to its return in the toggle's turn, and no generation belongs to it.
C10_ToggleNeverRenders ==
  /\ \A i \in Invs :
       invocations[i].by = "toggle" =>
         ~invocations[i].generateHtml /\ invocations[i].pc = "returned"
  /\ \A r \in renders : invocations[r.job.inv].by # "toggle"

\* In auto-start mode a toggle stopped the heap sampler and wrote its profile
\* while generations of the exit flush exist.
C10_Witness ==
  /\ autoStart
  /\ renders # {}
  /\ \E i \in Invs :
       invocations[i].by = "toggle" /\ Len(invocations[i].filenames) > 0

\* C11: with autoStart and delay 'none', both sub-profilers are running
\* before the target's first line of user code executes, whether or not
\* sourcemap directories or packages are configured (here: even when no
\* sampler call has thrown).
C11_RunningBeforeUserCode ==
  (autoStart /\ startup.delayValue = "none" /\ phase = "main" /\ hist.faults = 0)
  => /\ isCpuProfilerRunning /\ isHeapProfilerRunning
     /\ sampler["cpu"] /\ sampler["heap"]

\* The stage changes of an auto-start scheduled with 'until-started': the
\* setImmediate callback runs, then the timer it set runs its round, then
\* startProfiling is called (and may wait for the sourcemaps).
UntilStartedOrder ==
  {<<"immediate", "timer">>, <<"timer", "due">>, <<"due", "await">>,
   <<"due", "called">>, <<"await", "called">>}

\* C12: with delay 'until-started' the auto-start toggle never happens during
\* preload: while the bootstrap turn lasts only the setImmediate callback is
\* pending and toggleProfiler has not been called, and every later stage is
\* entered in a turn of the loop in the order check-phase callback, timer
\* round, call.
C12_UntilStartedDefers ==
  /\ [](startup.delayValue = "until-started" =>
         /\ phase # "loop" => startup.stage = "immediate"
         /\ hist.autoToggles = (IF startup.stage = "called" THEN 1 ELSE 0)
         /\ startup.stage # "rejected")
  /\ [][(startup.delayValue = "until-started" /\ startup'.stage # startup.stage) =>
          /\ phase = "loop"
          /\ <<startup.stage, startup'.stage>> \in UntilStartedOrder]_vars

\* The deferred auto-start has run: after the immediate and the timer round
\* toggleProfiler started both sub-profilers.
C12_Witness ==
  /\ startup = [stage |-> "called", delayValue |-> "until-started"]
  /\ hist.autoToggles = 1
  /\ isCpuProfilerRunning /\ isHeapProfilerRunning
  /\ sampler["cpu"] /\ sampler["heap"]

\* C13: the auto-start calls toggleProfiler exactly once per process (never
\* in manual mode, never twice, and once in every process that lives until
\* its loop has run dry), and never before (a) the sourcemap promise, when
\* there is one, has settled, with the mapper or with null, and (b) the
\* configured delay has elapsed: a scheduled start is called only from the
\* due timer's callback or from its await, and only 'none' (or an unusable
\* value) is called without a timer.
C13_AutoStartOnce ==
  /\ [](/\ hist.autoToggles = (IF startup.stage \in {"called", "rejected"} THEN 1 ELSE 0)
        /\ ~autoStart => hist.autoToggles = 0
        /\ (autoStart /\ term.state = "natural") => hist.autoToggles = 1
        /\ hist.autoToggles = 1 => sourceMapperPromise # "pending")
  /\ [][
       /\ hist'.autoToggles > hist.autoToggles =>
            /\ sourceMapperPromise' # "pending"
            /\ (startup'.delayValue \in {"ms", "until-started"}
                 => startup.stage \in {"due", "await"})
            /\ (startup'.delayValue \in {"none", "invalid"}
                 => startup.stage \in {"unscheduled", "await"})
       /\ (startup'.stage = "await" /\ startup.stage # "await") =>
            /\ sourceMapperPromise = "pending" \/ phase = "preload"
            /\ startup.stage = "due" \/ startup'.delayValue \in {"none", "invalid"}
       /\ startup'.stage = "due" => startup.stage \in {"timer", "due"}
     ]_vars

\* A start delayed by a number of milliseconds was called once, after the
\* delay and after the sourcemap promise had been fulfilled with null.
C13_Witness ==
  /\ startup = [stage |-> "called", delayValue |-> "ms"]
  /\ sourceMapperPromise = "failed"
  /\ hist.autoToggles = 1
  /\ isCpuProfilerRunning /\ isHeapProfilerRunning

\* C14: when no sub-profiler is running (neither flag is set), a SIGINT or
\* SIGTERM ends the process in the turn that delivers it, writes no .pb
\* file, stops no sampler and enters no stop function, in manual mode and
\* in auto-start mode (also before the delayed start).
C14_IdleSignalExits ==
  [][((Sigint \/ Sigterm) /\ ~isCpuProfilerRunning /\ ~isHeapProfilerRunning) =>
       /\ term'.state = (IF autoStart THEN "exited" ELSE "killed")
       /\ autoStart => term'.code = 0
       /\ pbWritten' = pbWritten
       /\ hist'.stops = hist.stops
       /\ sampler' = sampler
       /\ invocations' = invocations
       /\ renders' = renders]_vars

\* In auto-start mode a signal arrived before the delayed start and ended
\* the process: nothing was started, stopped or written.
C14_Witness ==
  /\ autoStart /\ autoStartPending
  /\ term.state = "exited"
  /\ hist.exitCalls = 0
  /\ pbWritten = <<>> /\ invocations = <<>>
  /\ \A k \in Kinds : hist.starts[k] = 0 /\ hist.stops[k] = 0

\* C15: when a sampler's start throws inside toggleProfiler called by the
\* SIGUSR2 handler (the CPU start, or the heap start after the CPU sampler
\* has started), the failure is handled: the error does not escape the
\* handler (the process does not die of it), and both flags end cleared in
\* agreement with the samplers, none of which is left running.
C15_StartFailureHandled ==
  (hist.startThrew /\ hist.autoToggles = 0) =>
    /\ term.state # "crashed"
    /\ ~isCpuProfilerRunning /\ ~isHeapProfilerRunning
    /\ \A k \in Kinds : ~sampler[k]

\* The generations of an invocation, by name.
JobsOf(s, i) == {r.job : r \in {x \in s.renders : x.job.inv = i}}

\* The .pb files an invocation wrote, in order.
WrittenBy(i) ==
  SelectSeq([n \in 1..Len(pbWritten) |->
               [inv |-> pbWritten[n].inv,
                name |-> PbName(pbWritten[n].kind, pbWritten[n].ts)]],
            LAMBDA w : w.inv = i)

\* C16: a failure of an HTML or markdown generation is never escalated.
\* Wherever stopProfilerAndSave(true) is suspended, it goes on after a failed
\* generation exactly as after a successful one (only the generation's own
\* outcome differs); once it has returned, with no sampler, encode or write
\* failure in it or in a stop that ran while it was suspended, it has
\* resolved with the full list of the .pb files it wrote and
\* every sub-profiler that was running has been stopped, written and had its
\* flag cleared, whatever its generations did; and the generations started
\* without await never change how the process ends (exit code 0).
C16_RenderFailureNotEscalated ==
  /\ \A i \in Suspended(Cur) : \A oh \in Outcomes :
       LET good == resumeStopProfilerAndSave(Cur, i, TRUE, oh)
           bad == resumeStopProfilerAndSave(Cur, i, FALSE, oh)
       IN /\ [bad EXCEPT !.renders = good.renders] = good
          /\ \A j \in 1..Len(good.invocations) : JobsOf(bad, j) = JobsOf(good, j)
          /\ [job |-> Awaited(Cur, i), state |-> "failed"] \in bad.renders
  /\ \A i \in Invs :
       (/\ invocations[i].generateHtml
        /\ invocations[i].pc = "returned"
        /\ \A j \in Invs : j >= i => invocations[j].threw = "none")
       => /\ invocations[i].ret = "list"
          /\ Len(WrittenBy(i)) = Len(invocations[i].filenames)
          /\ \A n \in 1..Len(WrittenBy(i)) :
               WrittenBy(i)[n].name = invocations[i].filenames[n]
          /\ \A k \in invocations[i].began :
               \E j \in Invs : j >= i /\ k \in invocations[j].cleared
          /\ \A r \in renders : r.job.inv = i => r.state \in {"ok", "failed"}
  /\ \A r \in renders :
       ~r.job.awaited => r.state = "pending" /\ term = [state |-> "exited", code |-> 0]

\* stopProfilerAndSave(true) returned both filenames with both flags cleared
\* although the HTML generation of the CPU profile and the markdown
\* generation of the heap profile failed.
C16_Witness ==
  \E i \in Invs :
    /\ invocations[i].pc = "returned" /\ invocations[i].ret = "list"
    /\ Len(invocations[i].filenames) = 2
    /\ invocations[i].cleared = Kinds
    /\ ~isCpuProfilerRunning /\ ~isHeapProfilerRunning
    /\ \E r, m \in renders :
         /\ r.job.inv = i /\ r.job.kind = "cpu" /\ r.job.fmt = "html" /\ r.state = "failed"
         /\ m.job.inv = i /\ m.job.kind = "heap" /\ m.job.fmt = "md" /\ m.state = "failed"

\* The markdown generation of the artifact an HTML generation belongs to,
\* and the other way round.
Sibling(job) == [job EXCEPT !.fmt = IF job.fmt = "html" THEN "md" ELSE "html"]

\* C17: for each written artifact the HTML and the markdown generation are
\* independent.  The markdown generation is attempted whether the HTML
\* generation succeeded or failed: an awaited HTML generation that has
\* settled, either way, has its markdown generation started, and on the
\* path without await both are started together.  A markdown generation
\* never blocks or undoes the HTML generation: it is started only with the
\* HTML generation attempted, and no step changes the outcome of a settled
\* generation.  A stopProfilerAndSave(true) that has returned normally has
\* attempted both for every file it wrote.
C17_HtmlAndMarkdownIndependent ==
  /\ [](/\ \A r \in renders :
            /\ (r.job.fmt = "html" /\ r.job.awaited /\ r.state # "pending")
                 => \E m \in renders : m.job = Sibling(r.job)
            /\ ~r.job.awaited => \E m \in renders : m.job = Sibling(r.job)
            /\ r.job.fmt = "md" =>
                 \E h \in renders :
                   /\ h.job = Sibling(r.job)
                   /\ r.job.awaited => h.state # "pending"
        /\ \A i \in Invs :
            (/\ invocations[i].generateHtml
             /\ invocations[i].pc = "returned"
             /\ invocations[i].ret = "list")
            => \A n \in 1..Len(invocations[i].filenames) :
                 \A fmt \in {"html", "md"} :
                   \E r \in renders :
                     /\ r.job = [inv |-> i, kind |-> invocations[i].filenames[n].kind,
                                 ts |-> invocations[i].filenames[n].ts,
                                 fmt |-> fmt, awaited |-> TRUE]
                     /\ r.state # "pending")
  /\ [][\A r \in renders : r.state # "pending" => r \in renders']_vars

\* For one artifact the HTML generation failed and the markdown generation
\* succeeded; for the other artifact of the same stop it is the other way
\* round.
C17_Witness ==
  \E h1, m1, h2, m2 \in renders :
    /\ h1.job.fmt = "html" /\ m1.job = Sibling(h1.job)
    /\ h1.state = "failed" /\ m1.state = "ok"
    /\ h2.job.fmt = "html" /\ m2.job = Sibling(h2.job)
    /\ h2.state = "ok" /\ m2.state = "failed"
    /\ h1.job.inv = h2.job.inv

\* C18: in manual mode no sampler is started before a SIGUSR2 is received,
\* samplers and flags change only in the turn of a SIGUSR2 (every stop is
\* the toggle's), the auto-start never runs, and no HTML or markdown
\* generation is ever started.
C18_ManualOnlyOnSigusr2 ==
  /\ [](~autoStart =>
         /\ renders = {}
         /\ hist.autoToggles = 0 /\ ~autoStartPending
         /\ startup.stage = "unscheduled"
         /\ hist.toggles = 0 =>
              /\ \A k \in Kinds : hist.starts[k] = 0 /\ ~sampler[k]
              /\ ~isCpuProfilerRunning /\ ~isHeapProfilerRunning
              /\ pbWritten = <<>>
         /\ \A i \in Invs :
              invocations[i].by = "toggle" /\ ~invocations[i].generateHtml)
  /\ [][(/\ ~autoStart
          /\ \/ sampler' # sampler
             \/ hist'.starts # hist.starts
             \/ hist'.stops # hist.stops
             \/ isCpuProfilerRunning' # isCpuProfilerRunning
             \/ isHeapProfilerRunning' # isHeapProfilerRunning
             \/ pbWritten' # pbWritten)
         => hist'.toggles = hist.toggles + 1]_vars

\* In manual mode one SIGUSR2 started both samplers and a second one stopped
\* them and wrote both profiles; nothing was generated.
C18_Witness ==
  /\ ~autoStart
  /\ hist.toggles = 2
  /\ \A k \in Kinds : hist.starts[k] = 1 /\ hist.stops[k] = 1 /\ WrittenCount(k) = 1
  /\ renders = {}

\* The mappings on the location's generated line, by where they stand
\* relative to its (0-based) column.
MappingsAt == {g \in infoMap.mappings :
                 g.line = location.line /\ g.column = GeneratedPos(location).column}
MappingsBefore == {g \in infoMap.mappings :
                     g.line = location.line /\ g.column < GeneratedPos(location).column}
MappingsAfter == {g \in infoMap.mappings :
                    g.line = location.line /\ g.column > GeneratedPos(location).column}

\* The location mappingInfo returns for a mapping.
LocationOf(g) == MappedLocation(infoMap, location, OriginalOf(g, infoMap.named))

NearestAfter == CHOOSE g \in MappingsAfter : \A o \in MappingsAfter : g.column <= o.column

NearestAtOrBefore ==
  CHOOSE g \in MappingsAt \cup MappingsBefore :
    \A o \in MappingsAt \cup MappingsBefore : g.column >= o.column

\* C19 as stated: for a location of an indexed file with no mapping at its
\* exact column but a mapping at a later column of the same generated
\* line, mappingInfo returns that later mapping, and the strict lookup alone
\* returns the location unchanged.
C19_NoExactMappingFallsForward ==
  (/\ HasMappingInfo(infoMap, location.file)
   /\ MappingsAt = {}
   /\ MappingsAfter # {})
  => /\ resolved.by = "mappingInfo" =>
          ~resolved.threw /\ resolved.value = LocationOf(NearestAfter)
     /\ resolved.by = "strict" =>
          ~resolved.threw /\ resolved.value = location

\* C19 amended: for a location of an indexed file with no mapping at or
\* before its column on its generated line but a mapping at a later column
\* of that line, mappingInfo returns the nearest later mapping, and the
\* default lookup alone returns the location unchanged; the fallback is
\* tried only after the default lookup has yielded no source: with a
\* mapping at or before the column, both return the nearest such mapping.
C19_FallbackAfterFailedLookup ==
  HasMappingInfo(infoMap, location.file) =>
    /\ (MappingsAt = {} /\ MappingsBefore = {} /\ MappingsAfter # {}) =>
         /\ resolved.by = "mappingInfo" =>
              ~resolved.threw /\ resolved.value = LocationOf(NearestAfter)
         /\ resolved.by = "strict" =>
              ~resolved.threw /\ resolved.value = location
    /\ (MappingsAt \cup MappingsBefore # {}) =>
         (resolved.by # "none" =>
            ~resolved.threw /\ resolved.value = LocationOf(NearestAtOrBefore))

\* mappingInfo resolved a location that has two mappings after its column
\* and none at or before it: to the nearer of the two.
C19_Witness ==
  /\ resolved.by = "mappingInfo"
  /\ HasMappingInfo(infoMap, location.file)
  /\ MappingsAt = {} /\ MappingsBefore = {}
  /\ Cardinality(MappingsAfter) = 2
  /\ resolved.value = LocationOf(NearestAfter)
  /\ resolved.value # location

\* Both lookups of the location come back without a source (or the file has
\* no entry at all).
AllLookupsFail ==
  \/ ~HasMappingInfo(infoMap, location.file)
  \/ \A g \in infoMap.mappings : g.line # location.line

\* C20: resolution is never fatal: for every location, also one whose file
\* has no index entry, one with no mapping under either lookup and one
\* with a line or column the map consumer rejects, mappingInfo returns
\* without throwing, and when all lookups fail it returns the location
\* unchanged.
C20_ResolveNeverThrows ==
  resolved.by = "mappingInfo" =>
    /\ ~resolved.threw
    /\ AllLookupsFail => resolved.value = location

\* The line opens with a function declaration: [async] function <name> (
DeclaredName(l) ==
  LET first == SkipSpaces(l, 1)
      kw == IF At(l, first) = "async" THEN SkipSpaces(l, first + 1) ELSE first
      name == SkipSpaces(l, kw + 1)
  IN IF /\ At(l, kw) = "function"
        /\ name > kw + 1
        /\ At(l, name) \in Words \ (ControlFlowWords \cup {"function", "async"})
        /\ At(l, SkipSpaces(l, name + 1)) = "("
     THEN l[name]
     ELSE "null"

\* The line opens with a control-flow statement: if (, for (, while (, ...
ControlFlowLine(l) ==
  LET first == SkipSpaces(l, 1)
  IN /\ At(l, first) \in ControlFlowWords
     /\ At(l, SkipSpaces(l, first + 1)) = "("

\* C21: name extraction yields the declared name for a line that opens with
\* a named function declaration, and no name for a line that opens with a
\* control-flow statement (if, for, while, switch, catch).
C21_DeclarationsNamedControlFlowNot ==
  extracted.by = "extractFunctionName" =>
    /\ DeclaredName(sourceLine) # "null" => extracted.name = DeclaredName(sourceLine)
    /\ ControlFlowLine(sourceLine) => extracted.name = "null"

\* The values a profile's varint fields take here, one of them two bytes long.
ProfileValues == {0, 1, 31, 139}

ProfileFields ==
  [field : {9}, wire : {0}, value : {<<v>> : v \in ProfileValues}]
    \cup [field : {1}, wire : {2}, value : UNION {[1..n -> Bytes] : n \in 0..1}]

\* The encoded profiles: what the encoder makes of a sequence of fields.
Profiles == UNION {[1..n -> ProfileFields] : n \in 0..(MaxBytes \div 2)}

IsProfileStream(b) == \E pr \in Profiles : Encode(pr) = b

\* C25: for every profile byte stream, parseProfile of the gzip-compressed
\* form gives the structure parseProfile gives for the uncompressed form,
\* and neither fails.
C25_GzipRoundTrip ==
  (parsed.called = {"plain", "gz"} /\ IsProfileStream(profileFile))
  => /\ parsed.gz = parsed.plain
     /\ ~parsed.plain.threw
     /\ Encode(parsed.plain.fields) = profileFile

C25_Witness ==
  /\ parsed.called = {"plain", "gz"}
  /\ IsProfileStream(profileFile)
  /\ Len(profileFile) = MaxBytes
  /\ parsed.gz.fields # <<>>

\* The index the initialisation is to end with: the entries of the
\* directories, those of a path a package entry names replaced.
CompleteIndex == Merge(index.built, index.loaded)

\* C22: the index is visible to the profilers (the module's sourceMapper is
\* assigned) only once the directory build and the merge of the package
\* entries are over, and from then on no step adds, replaces or removes an
\* entry.
C22_IndexBuiltThenReadOnly ==
  /\ [](index.sourceMapper =>
          /\ index.iife = "done"
          /\ index.create # "unsettled" /\ index.load # "unsettled"
          /\ index.infoMap = CompleteIndex)
  /\ [][index.sourceMapper =>
          /\ index'.sourceMapper
          /\ index'.infoMap = index.infoMap]_vars
  /\ [][(sampler'["cpu"] /\ ~sampler["cpu"] /\ index'.sourceMapper) =>
          index'.infoMap = CompleteIndex']_vars

C22_Witness ==
  /\ index.sourceMapper
  /\ index.found = "entry"
  /\ \E d \in index.infoMap, n \in index.infoMap : d.from = "dirs" /\ n.from = "package"
  /\ index.built \ index.infoMap # {}
  /\ sampler["cpu"]

\* C30: a package load that fails contributes no entry and the index of the
\* directories is still used; an initialisation that fails leaves the index
\* absent and its promise fulfilled, and the auto-start, when no sampler
\* call throws, still starts both samplers.
C30_SourcemapFailureNeverBlocks ==
  /\ (index.load \notin {"none", "unsettled", "loaded"}
        /\ index.create \in {"none", "done"}) =>
       /\ index.sourceMapper
       /\ sourceMapperPromise = "mapper"
       /\ index.infoMap = index.built
  /\ index.iife = "failed" =>
       /\ ~index.sourceMapper
       /\ sourceMapperPromise = "failed"
  /\ startup.stage = "await" => sourceMapperPromise = "pending"
  /\ (sourceMapperPromise = "failed" /\ startup.stage = "called"
        /\ hist.toggles = 0 /\ hist.faults = 0) =>
       /\ isCpuProfilerRunning /\ isHeapProfilerRunning
       /\ sampler["cpu"] /\ sampler["heap"]

C30_Witness ==
  /\ sourceMapperPromise = "failed"
  /\ index.load \notin {"none", "unsettled", "loaded"}
  /\ startup.stage = "called"
  /\ sampler["cpu"] /\ sampler["heap"]

\* The module-level flag of a sub-profiler.
Flag(kind) == IF kind = "cpu" THEN isCpuProfilerRunning ELSE isHeapProfilerRunning

\* The .pb files of a kind the log holds.
PbCount(log, kind) == Cardinality({n \in 1..Len(log) : log[n].kind = kind})

\* C27: toggleProfiler called with both flags clear starts both samplers and
\* sets both flags, and writes nothing; called with a flag set (also with
\* only the heap flag set, in the middle of an awaited stop) it starts
\* nothing, and stops and writes one profile for exactly the sub-profilers
\* whose flag is set, whose flags it clears.
C27_ToggleTransitions ==
  [][
     (hist.toggles' = hist.toggles + 1) =>
       IF ~isCpuProfilerRunning /\ ~isHeapProfilerRunning
       THEN /\ isCpuProfilerRunning' /\ isHeapProfilerRunning'
            /\ sampler'["cpu"] /\ sampler'["heap"]
            /\ pbWritten' = pbWritten
       ELSE /\ hist.starts' = hist.starts
            /\ ~isCpuProfilerRunning' /\ ~isHeapProfilerRunning'
            /\ \A k \in Kinds :
                 IF Flag(k)
                 THEN /\ ~sampler'[k]
                      /\ PbCount(pbWritten', k) = PbCount(pbWritten, k) + 1
                 ELSE /\ PbCount(pbWritten', k) = PbCount(pbWritten, k)
                      /\ hist.stops'[k] = hist.stops[k]
  ]_vars

\* C28: stopProfilerAndSave and stopProfilerQuick invoked while neither
\* flag is set return null and change nothing: the samplers, the files
\* written, the generations, the invocations that did something, both flags
\* and the exit latch are as before.
C28_IdleStopChangesNothing ==
  [][
     (StopAndSaveCall \/ QuickStopCall) =>
       /\ hist'.nullReturn
       /\ sampler' = sampler
       /\ hist'.starts = hist.starts /\ hist'.stops = hist.stops
       /\ pbWritten' = pbWritten
       /\ renders' = renders
       /\ invocations' = invocations
       /\ isCpuProfilerRunning' = isCpuProfilerRunning
       /\ isHeapProfilerRunning' = isHeapProfilerRunning
       /\ exitHandlerCalled' = exitHandlerCalled
       /\ term' = term
  ]_vars

\* An idle call returned null after a session had been stopped and written.
C28_Witness ==
  /\ hist.nullReturn
  /\ ~isCpuProfilerRunning /\ ~isHeapProfilerRunning
  /\ pbWritten # <<>>

\* C29: with every started generation settling, a process.exit(code) call
\* made while profiling leads to the real exit (or to the death of the
\* process by another way), and after the beforeExit flush the process
\* ends; the flush of beforeExit is run once, not on each 'beforeExit'.
C29_GracefulExitTerminates ==
  /\ (\E i \in Invs : invocations[i].by = "exit") ~> term.state \in {"exited", "crashed"}
  /\ (\E i \in Invs : invocations[i].by = "beforeExit") ~> ~Alive
  /\ [](Cardinality({i \in Invs : invocations[i].by = "beforeExit"}) <= 1)

C29_Witness ==
  \E i \in Invs :
    /\ invocations[i].by = "exit"
    /\ invocations[i].code = 1
    /\ invocations[i].pc = "returned"
    /\ Cardinality({r \in renders : r.job.inv = i /\ r.state # "pending"}) = 4
    /\ term = [state |-> "exited", code |-> 1]

\* C23: a SIGINT makes the command send SIGTERM to the child, and it sends
\* no SIGKILL that a SIGTERM did not precede; while it is stopping a timer
\* of GraceMs is armed; it ends, and only on the close of the child or by the
\* timer's callback, which has sent SIGKILL.
C23_InterruptStopsGracefullyThenTerminates ==
  /\ [][(cli'.interrupts = cli.interrupts + 1) =>
          cli'.sent = Append(cli.sent, "SIGTERM")]_vars
  /\ [](\A n \in 1..Len(cli.sent) :
          cli.sent[n] = "SIGKILL" => \E m \in 1..(n - 1) : cli.sent[m] = "SIGTERM")
  /\ [](cli.pc = "stopping" =>
          /\ cli.timers # <<>>
          /\ \A n \in 1..Len(cli.timers) : cli.timers[n] = GraceMs)
  /\ [][(cli.pc = "stopping" /\ cli'.pc = "exited") =>
          \/ cli'.exitBy = "close" /\ cli'.child = "closed" /\ ~Alive
          \/ /\ cli'.exitBy = "grace" /\ cli.due
             /\ cli'.sent = Append(cli.sent, "SIGKILL")]_vars
  /\ (cli.pc = "stopping") ~> (cli.pc = "exited")

\* The child did not end in time: the command sent SIGTERM, then SIGKILL,
\* and exited with the child still running.
C23_Witness ==
  /\ cli.pc = "exited"
  /\ cli.exitBy = "grace"
  /\ cli.sent = <<"SIGTERM", "SIGKILL">>
  /\ Alive

\* C24 as stated: an invalid delay value, whether given with --delay or
\* read from FLAME_DELAY, or a missing script ends the command with a
\* non-zero status, with no child spawned and no sampler started.
C24_InvalidConfigurationIsFatal ==
  (/\ cli.pc \notin {"none", "start"}
   /\ \/ cli.args.script \in {"absent", "missing"}
      \/ cli.args.delay \in {"negative", "invalid"}
      \/ cli.env.FLAME_DELAY = "invalid")
  => /\ cli.pc = "exited" /\ cli.code # 0 /\ cli.error # "none"
     /\ cli.child = "none"
     /\ phase = "preload"
     /\ \A k \in Kinds : ~sampler[k] /\ hist.starts[k] = 0

\* C24, amended: a --delay value that reads neither as 'none', as
\* 'until-started' nor as a number >= 0, or a missing script, ends the
\* command with a non-zero status, reported, with no child spawned and no
\* sampler started; an invalid FLAME_DELAY that the controller reads is not
\* fatal: startProfiling is called while the preload script runs.
C24_CommandErrorsAreFatal ==
  /\ (/\ cli.pc \notin {"none", "start"}
      /\ \/ cli.args.script \in {"absent", "missing"}
         \/ cli.args.delay \in {"negative", "invalid"})
     => /\ cli.pc = "exited" /\ cli.code # 0 /\ cli.error # "none"
        /\ cli.child = "none"
        /\ phase = "preload"
        /\ \A k \in Kinds : ~sampler[k] /\ hist.starts[k] = 0
  /\ (/\ cli.child # "none"
      /\ phase # "preload"
      /\ autoStart
      /\ ControllerReads(cli.childEnv).delayValue = "invalid")
     => startup.stage \in {"called", "await", "rejected"}

\* A negative --delay was refused.
C24_Witness ==
  /\ cli.args.script = "found"
  /\ cli.args.delay = "negative"
  /\ cli.pc = "exited"
  /\ cli.code = 1
  /\ cli.error = "invalid delay"

\* C26: what the controller in the child reads from its environment is what
\* the caller of startProfiling gave: the auto-start flag, the delay, the
\* sourcemap directories and the sourcemap packages.
C26_ConfigurationPropagated ==
  cli.child # "none" =>
    LET reads == ControllerReads(cli.childEnv)
    IN /\ reads.autoStart = cli.options.autoStart
       /\ reads.delayValue = cli.options.delay
       /\ reads.sourcemapDirs = cli.options.sourcemapDirs
       /\ reads.nodeModulesSourceMaps = cli.options.nodeModulesSourceMaps
       /\ phase # "preload" =>
            /\ autoStart = cli.options.autoStart
            /\ (sourceMapperPromise # "null") = (cli.options.sourcemapDirs # "unset")

\* C34: between turns the CPU flag implies the heap flag, and the one mixed
\* state, CPU flag clear and heap flag set, is there only while a
\* stopProfilerAndSave(true) is suspended at an await of its CPU block.
C34_CpuRunningImpliesHeapRunning ==
  /\ isCpuProfilerRunning => isHeapProfilerRunning
  /\ (~isCpuProfilerRunning /\ isHeapProfilerRunning) =>
       \E i \in 1..Len(invocations) :
         /\ invocations[i].fn = "stopProfilerAndSave"
         /\ invocations[i].generateHtml
         /\ invocations[i].pc \in {"cpuHtml", "cpuMd"}

\* C35: between turns of a live process each flag agrees with its sampler,
\* whatever failed in a stop function.
C35_FlagsAgreeWithSamplers ==
  Alive => \A k \in Kinds : Flag(k) = sampler[k]

\* C36: the turn in which the auto-start calls toggleProfiler, no start
\* throwing, ends with both sub-profilers running.
C36_AutoStartLeavesBothRunning ==
  [][(hist'.autoToggles = hist.autoToggles + 1 /\ ~hist'.startThrew) =>
       /\ isCpuProfilerRunning' /\ isHeapProfilerRunning'
       /\ sampler'["cpu"] /\ sampler'["heap"]]_vars

\* The .pb files written so far, with the invocation that wrote each.
PbFiles ==
  {[name |-> PbName(pbWritten[n].kind, pbWritten[n].ts), inv |-> pbWritten[n].inv] :
     n \in 1..Len(pbWritten)}

\* C38 as stated: two stops never write the same filename.
C38_StopsNeverShareFilename ==
  \A f, g \in PbFiles : f.inv # g.inv => f.name # g.name

\* C38, amended: two stops whose timestamps differ never write the same
\* filename (and two stops of one kind in the same millisecond do).
C38_StopsAtDistinctTimesWriteDistinctFiles ==
  \A f, g \in PbFiles :
    (f.inv # g.inv /\ f.name.kind = g.name.kind) =>
      (f.name = g.name) = (invocations[f.inv].ts = invocations[g.inv].ts)

\* Two stops a millisecond apart have each written a CPU profile.
C38_Witness ==
  \E f, g \in PbFiles :
    /\ f.inv # g.inv
    /\ f.name.kind = "cpu" /\ g.name.kind = "cpu"
    /\ invocations[f.inv].ts # invocations[g.inv].ts
    /\ f.name # g.name

\* C39 as stated: after a process.exit call made while a sub-profiler is
\* running the process is gone when the turn ends.
C39_ExitCallNeverReturns ==
  [][(hist'.exitCalls = hist.exitCalls + 1
        /\ (isCpuProfilerRunning \/ isHeapProfilerRunning)) => ~Alive']_vars

\* C39, amended: a process.exit call made in auto-start mode while a
\* sub-profiler is running and the latch is clear starts
\* stopProfilerAndSave(true) and returns; the real exit is called when that
\* promise has settled, so the process lives on while it is suspended.  Any
\* other process.exit call is the real exit.
C39_ExitCallFlushesThenExits ==
  [][(hist'.exitCalls = hist.exitCalls + 1) =>
       IF autoStart /\ (isCpuProfilerRunning \/ isHeapProfilerRunning) /\ ~exitHandlerCalled
       THEN /\ Len(invocations') = Len(invocations) + 1
            /\ exitHandlerCalled'
            /\ LET inv == invocations'[Len(invocations')]
               IN /\ inv.by = "exit" /\ inv.generateHtml
                  /\ inv.pc # "returned" => Alive'
                  /\ inv.pc = "returned" => term' = [state |-> "exited", code |-> inv.code]
       ELSE /\ term'.state = "exited"
            /\ invocations' = invocations]_vars

\* The target called process.exit while profiling, and runs on while the
\* flush is suspended.
C39_Witness ==
  /\ hist.exitCalls = 1
  /\ Alive
  /\ \E i \in 1..Len(invocations) :
       invocations[i].by = "exit" /\ invocations[i].pc \in {"cpuHtml", "cpuMd", "heapHtml", "heapMd"}

\* C37: with sourcemaps configured and their initialisation not failed, a
\* turn that starts the CPU sampler finds sourceMapper set: the capture has
\* the symbolizer attached.
C37_CaptureHasSourceMapper ==
  [][(/\ hist'.starts["cpu"] = hist.starts["cpu"] + 1
      /\ sourceMapperPromise' \notin {"null", "failed"})
     => sourceMapperPromise' = "mapper"]_vars

\* C40: whatever the options, the child's environment has FLAME_AUTO_START
\* 'true' when options.autoStart is truthy and 'false' when it is not.
C40_AutoStartFlagFollowsOption ==
  cli.child # "none" =>
    cli.childEnv.FLAME_AUTO_START = (IF cli.options.autoStart THEN "true" ELSE "false")

\* C32: the name of a location that mappingInfo resolved is the name the
\* map's mapping records, else the name extractFunctionName found in the
\* original source line, else the name of the location handed in.
C32_NamePriority ==
  (resolved.by = "mappingInfo" /\ ~resolved.threw /\ resolved.value.file # location.file) =>
    resolved.value.name =
      (IF infoMap.named THEN "myFunction"
       ELSE IF infoMap.extractedName # "null" THEN infoMap.extractedName
       ELSE location.name)

\* A location resolved through a mapping without a name, its name taken
\* from the source line.
C32_Witness ==
  /\ resolved.by = "mappingInfo" /\ ~resolved.threw
  /\ resolved.value.file # location.file
  /\ ~infoMap.named
  /\ resolved.value.name = "renderElement"

Delivered(type) ==
  {n \in 1..Len(flamegraph.delivered) : flamegraph.delivered[n].type = type}

\* C33: the promise of generateFlamegraph is settled once and for good; it
\* is settled when the child's events are over; it is fulfilled exactly
\* when the child has closed with exit code 0, and rejected exactly when an
\* 'error' or a 'close' with another code was delivered, both included.
C33_PromiseSettlesOnce ==
  /\ [][flamegraph.promise.state # "pending" => flamegraph'.promise = flamegraph.promise]_vars
  /\ []((flamegraph.impl # "none" /\ flamegraph.events = <<>>) =>
          flamegraph.promise.state # "pending")
  /\ [](flamegraph.promise.state = "resolved" <=>
          \E n \in Delivered("close") : flamegraph.delivered[n].code = 0)
  /\ [](flamegraph.promise.state = "rejected" <=>
          \/ Delivered("error") # {}
          \/ \E n \in Delivered("close") : flamegraph.delivered[n].code # 0)

\* 'error' and 'close' were both delivered: the promise stays rejected with
\* the error.
C33_Witness ==
  /\ Delivered("error") # {} /\ Delivered("close") # {}
  /\ flamegraph.promise.state = "rejected"
  /\ flamegraph.promise.value.message = <<"spawn">>

\* The file the map declares, and the map's name without '.map', both in
\* the map's directory.
DeclaredPath == [dir |-> mapFile.path.dir \o mapFile.file.dirs, name |-> mapFile.file.name]
StrippedPath ==
  [dir |-> mapFile.path.dir,
   name |-> SubSeq(mapFile.path.name, 1, Len(mapFile.path.name) - 1)]

\* C31: the index key of a map is its declared file if that exists, else
\* the map's name without '.map' if that exists; a map with neither, or one
\* that cannot be read or parsed, gives no entry.
C31_FirstExistingCandidateIsKey ==
  mapFile.called =>
    mapFile.result =
      (IF ~mapFile.readable \/ ~mapFile.parses THEN NoEntry
       ELSE IF mapFile.file.present /\ DeclaredPath \in mapFile.exists
       THEN [found |-> TRUE, generatedPath |-> DeclaredPath, mapFileDir |-> mapFile.path.dir]
       ELSE IF StrippedPath \in mapFile.exists
       THEN [found |-> TRUE, generatedPath |-> StrippedPath, mapFileDir |-> mapFile.path.dir]
       ELSE NoEntry)

\* Both candidates exist and differ: the declared file is the key.
C31_Witness ==
  /\ mapFile.called
  /\ mapFile.file.present
  /\ DeclaredPath # StrippedPath
  /\ DeclaredPath \in mapFile.exists /\ StrippedPath \in mapFile.exists
  /\ mapFile.result.found
  /\ mapFile.result.generatedPath = DeclaredPath

====
